---- MODULE Spec2Model ----
(***************************************************************************)
(* A model of the event parser (src/src/parser.rs) and of the event        *)
(* emitter (src/src/emitter.rs) of libyaml-safer.                          *)
(*                                                                         *)
(* The parser is a pushdown automaton over the token queue filled by the   *)
(* scanner.  One call of yaml_parser_parse is one step of the model: the   *)
(* handler selected by parser.state is a set-valued operator that returns  *)
(* every outcome [p, event, ret] the call can have, one for each way the   *)
(* scanner can continue the token stream while the handler looks ahead.    *)
(***************************************************************************)
EXTENDS Integers, Sequences, FiniteSets, TLC

VARIABLES
    parser,     \* yaml_parser_t: the fields the event parser reads and writes
    event,      \* the yaml_event_t filled by the last yaml_parser_parse call
    ret,        \* the value returned by the last yaml_parser_parse call
    call,       \* history: the state the last call started in, the tokens it consumed
    open,       \* history: the events opened and not yet closed, innermost last
    balanced,   \* history: no event so far closed anything but the innermost opening
    trace,      \* history: the events returned so far (scripted input only)
    emitter,    \* Emitter: its fields, its writer and the Result of the last emit
    emits,      \* history: the number of emit calls, whether one returned Err
    loaded,     \* the document and the result of the last yaml_parser_load call,
                \* history: the events it consumed, the documents returned so far
    got,        \* the nodes, the index and the outcome of the last
                \* yaml_document_get_node call
    analysed    \* a scalar value and, once analyze_scalar was called, its analysis

vars ==
    <<parser, event, ret, call, open, balanced, trace, emitter, emits, loaded, got,
      analysed>>

(***************************************************************************)
(* Bounds of the model.                                                    *)
(***************************************************************************)
\* The deepest state stack explored: calls that would push deeper are cut off.
MaxDepth == 3
\* The longest run of DOCUMENT-END tokens the free scanner produces in a row.
MaxDocEndRun == 1
\* The longest token sequence between STREAM-START and STREAM-END of a script.
MaxScript == 3
\* The number of calls whose events the history of a scripted run records.
MaxTrace == 11
\* The number of Emitter::emit calls of a run.
MaxEmits == 6

NULL == "NULL"

(***************************************************************************)
(* Tokens.  A token is a record with the fields of yaml_token_t: the       *)
(* fields of the variant it does not belong to keep their zero value.      *)
(* A mark is a position; the scripted scanner gives the n-th token the     *)
(* marks 2n and 2n+1, the free scanner does not track positions and gives  *)
(* every token the marks 0 and 1.                                          *)
(***************************************************************************)
Token(type) ==
    [type |-> type, start_mark |-> 0, end_mark |-> 1, major |-> 0, minor |-> 0,
     handle |-> "", prefix |-> "", suffix |-> "", value |-> "", style |-> ""]

NoToken == Token("NULL")

VersionDirectiveToken(major, minor) ==
    [Token("VERSION_DIRECTIVE") EXCEPT !.major = major, !.minor = minor]

TagDirectiveToken(handle, prefix) ==
    [Token("TAG_DIRECTIVE") EXCEPT !.handle = handle, !.prefix = prefix]

TagToken(handle, suffix) ==
    [Token("TAG") EXCEPT !.handle = handle, !.suffix = suffix]

ScalarToken(value, style) ==
    [Token("SCALAR") EXCEPT !.value = value, !.style = style]

AnchorToken(value) == [Token("ANCHOR") EXCEPT !.value = value]

AliasToken(value) == [Token("ALIAS") EXCEPT !.value = value]

ScalarStyles == {"PLAIN", "DOUBLE_QUOTED"}

\* The tokens of a stream's structure: the documents' and collections' markers
\* and the nodes without tags.
StructureTokens ==
    {Token(t) : t \in {"STREAM_END", "DOCUMENT_START", "DOCUMENT_END",
                       "BLOCK_SEQUENCE_START", "BLOCK_MAPPING_START", "BLOCK_END",
                       "FLOW_SEQUENCE_START", "FLOW_SEQUENCE_END",
                       "FLOW_MAPPING_START", "FLOW_MAPPING_END",
                       "BLOCK_ENTRY", "FLOW_ENTRY", "KEY", "VALUE"}}
    \cup {AnchorToken("x"), AliasToken("x"), ScalarToken("a", "PLAIN")}

\* The tokens of a document's prologue and of its nodes' properties.
PropertyTokens ==
    {Token(t) : t \in {"STREAM_END", "DOCUMENT_START", "DOCUMENT_END",
                       "FLOW_SEQUENCE_START", "FLOW_SEQUENCE_END",
                       "BLOCK_MAPPING_START", "BLOCK_END"}}
    \cup {VersionDirectiveToken(1, 1), VersionDirectiveToken(1, 3),
          VersionDirectiveToken(2, 1)}
    \cup {TagDirectiveToken("!e!", "tag:e:"), TagDirectiveToken("!", "!my-")}
    \cup {TagToken("!", ""), TagToken("", "tag:v"), TagToken("!e!", "x")}
    \cup {AnchorToken("x")}
    \cup {ScalarToken("a", s) : s \in ScalarStyles}

\* The tokens a free input of the given kind continues with.
Alphabet(kind) == IF kind = "structure" THEN StructureTokens ELSE PropertyTokens

(***************************************************************************)
(* Events: a record with the fields of yaml_event_t, zeroed by memset      *)
(* before a handler fills the fields of its variant.                       *)
(***************************************************************************)
NoEvent ==
    [type |-> "NO_EVENT", start_mark |-> 0, end_mark |-> 0, anchor |-> NULL,
     tag |-> NULL, value |-> NULL, implicit |-> 0, plain_implicit |-> 0,
     quoted_implicit |-> 0, style |-> "ANY", version_directive |-> <<>>,
     tag_directives |-> <<>>]

Event(type, start_mark, end_mark) ==
    [NoEvent EXCEPT !.type = type, !.start_mark = start_mark, !.end_mark = end_mark]

(***************************************************************************)
(* Outcomes of a call and the token macros.                                *)
(***************************************************************************)
Ok(p, ev) == {[p |-> p, event |-> ev, ret |-> 1]}

Fail(p) == {[p |-> p, event |-> NoEvent, ret |-> 0]}

Top(stack) == stack[Len(stack)]

Pop(stack) == SubSeq(stack, 1, Len(stack) - 1)

\* The scanner (not part of the parser's source): it appends the next token of
\* the stream to the queue, or fails and sets the error.  A free input may
\* continue with any token of its alphabet, a scripted input continues with its
\* next token.
yaml_parser_fetch_more_tokens(p) ==
    IF p.input.free
    THEN {[p EXCEPT !.tokens = Append(@, t), !.token_available = TRUE,
                    !.stream_start_produced = TRUE] :
             t \in (IF p.stream_start_produced THEN Alphabet(p.input.alphabet)
                                                ELSE {Token("STREAM_START")})}
         \cup {[p EXCEPT !.error = "YAML_SCANNER_ERROR"]}
    ELSE IF p.input.rest = <<>>
    THEN {[p EXCEPT !.error = "YAML_SCANNER_ERROR"]}
    ELSE {[p EXCEPT !.tokens = Append(@, Head(p.input.rest)),
                    !.token_available = TRUE, !.stream_start_produced = TRUE,
                    !.input.rest = Tail(@)]}

\* PEEK_TOKEN: the pairs <<parser, token>> the macro can yield; the token is
\* NoToken (the null pointer) when the scanner failed.
PEEK_TOKEN(p) ==
    IF p.token_available
    THEN {<<p, Head(p.tokens)>>}
    ELSE {<<q, IF q.token_available THEN Head(q.tokens) ELSE NoToken>> :
             q \in yaml_parser_fetch_more_tokens(p)}

\* SKIP_TOKEN: drop the head of the queue.
SKIP_TOKEN(p) ==
    [p EXCEPT !.token_available = FALSE,
              !.stream_end_produced = (Head(p.tokens).type = "STREAM_END"),
              !.tokens = Tail(@),
              !.skipped = Append(@, Head(p.tokens))]

PUSH_state(p, s) == [p EXCEPT !.states = Append(@, s)]

ParserStates ==
    {"STREAM_START", "IMPLICIT_DOCUMENT_START", "DOCUMENT_START", "DOCUMENT_CONTENT",
     "DOCUMENT_END", "BLOCK_NODE", "BLOCK_NODE_OR_INDENTLESS_SEQUENCE", "FLOW_NODE",
     "BLOCK_SEQUENCE_FIRST_ENTRY", "BLOCK_SEQUENCE_ENTRY", "INDENTLESS_SEQUENCE_ENTRY",
     "BLOCK_MAPPING_FIRST_KEY", "BLOCK_MAPPING_KEY", "BLOCK_MAPPING_VALUE",
     "FLOW_SEQUENCE_FIRST_ENTRY", "FLOW_SEQUENCE_ENTRY",
     "FLOW_SEQUENCE_ENTRY_MAPPING_KEY", "FLOW_SEQUENCE_ENTRY_MAPPING_VALUE",
     "FLOW_SEQUENCE_ENTRY_MAPPING_END", "FLOW_MAPPING_FIRST_KEY", "FLOW_MAPPING_KEY",
     "FLOW_MAPPING_VALUE", "FLOW_MAPPING_EMPTY_VALUE", "END"}

\* `parser.state = POP(parser.states)`.  Popping an empty stack reads before the
\* allocation: any state may come out, and the parser is marked as having left
\* defined behaviour.
POP_state(p) ==
    IF p.states = <<>>
    THEN {[p EXCEPT !.state = s, !.ub = TRUE] : s \in ParserStates}
    ELSE {[p EXCEPT !.state = Top(p.states), !.states = Pop(@)]}

PUSH_mark(p, mark) == [p EXCEPT !.marks = Append(@, mark)]

\* `POP(parser.marks)`; on an empty stack the pointer leaves the allocation.
POP_mark(p) ==
    IF p.marks = <<>> THEN [p EXCEPT !.ub = TRUE] ELSE [p EXCEPT !.marks = Pop(@)]

yaml_parser_set_parser_error(p, problem, problem_mark) ==
    [p EXCEPT !.error = "YAML_PARSER_ERROR", !.problem = problem,
              !.problem_mark = problem_mark]

yaml_parser_set_parser_error_context(p, context, context_mark, problem, problem_mark) ==
    [p EXCEPT !.error = "YAML_PARSER_ERROR", !.context = context,
              !.context_mark = context_mark, !.problem = problem,
              !.problem_mark = problem_mark]

(***************************************************************************)
(* The handlers of the parser's states.                                    *)
(***************************************************************************)
yaml_parser_parse_stream_start(p) ==
    UNION {IF token.type = "NULL" THEN Fail(q)
           ELSE IF token.type # "STREAM_START"
           THEN Fail(yaml_parser_set_parser_error(
                    q, "did not find expected <stream-start>", token.start_mark))
           ELSE Ok(SKIP_TOKEN([q EXCEPT !.state = "IMPLICIT_DOCUMENT_START"]),
                   Event("STREAM_START", token.start_mark, token.start_mark)) :
              <<q, token>> \in PEEK_TOKEN(p)}

yaml_parser_process_empty_scalar(p, mark) ==
    Ok(p, [Event("SCALAR", mark, mark) EXCEPT
              !.value = "", !.plain_implicit = 1, !.quoted_implicit = 0,
              !.style = "PLAIN"])

\* A handle already in the table appended again where duplicates are allowed.
yaml_parser_append_tag_directive_again(p, value, allow_duplicates, mark) ==
    IF ~allow_duplicates
       /\ \E i \in 1..Len(p.tag_directives) : p.tag_directives[i].handle = value.handle
    THEN [p |-> yaml_parser_set_parser_error(
                    p, "found duplicate %TAG directive", mark),
          ok |-> FALSE]
    ELSE [p |-> [p EXCEPT !.tag_directives = Append(@, value)], ok |-> TRUE]

\* Returns [p, ok]: the parser with `value` added to its table of tag directives,
\* or with the error set.
yaml_parser_append_tag_directive(p, value, allow_duplicates, mark) ==
    IF \E i \in 1..Len(p.tag_directives) : p.tag_directives[i].handle = value.handle
    THEN IF allow_duplicates
         THEN [p |-> p, ok |-> TRUE]
         ELSE [p |-> yaml_parser_set_parser_error(
                         p, "found duplicate %TAG directive", mark),
               ok |-> FALSE]
    ELSE [p |-> [p EXCEPT !.tag_directives = Append(@, value)], ok |-> TRUE]

\* A version check that looks at the major number only.
IncompatibleVersion_major_only(major, minor) == major # 1

\* The versions yaml_parser_process_directives rejects.
IncompatibleVersion(major, minor) == major # 1 \/ (minor # 1 /\ minor # 2)

\* The loop of yaml_parser_process_directives from the token it looks at, and the
\* defaults appended after it.  Returns the set of [p, ok, version_directive,
\* tag_directives]; the last two are the values handed back through the refs.
RECURSIVE DirectivesLoop(_, _, _, _)
DirectivesLoop(p, token, version_directive, tag_directives) ==
    LET failed(q) == {[p |-> q, ok |-> FALSE, version_directive |-> <<>>,
                       tag_directives |-> <<>>]}
    IN
    IF token.type = "NULL" THEN failed(p)
    ELSE IF token.type \notin {"VERSION_DIRECTIVE", "TAG_DIRECTIVE"}
    THEN LET d1 == yaml_parser_append_tag_directive(
                       p, [handle |-> "!", prefix |-> "!"], TRUE, token.start_mark).p
             d2 == yaml_parser_append_tag_directive(
                       d1, [handle |-> "!!", prefix |-> "tag:yaml.org,2002:"], TRUE,
                       token.start_mark).p
         IN  {[p |-> d2, ok |-> TRUE, version_directive |-> version_directive,
               tag_directives |-> tag_directives]}
    ELSE IF token.type = "VERSION_DIRECTIVE" /\ version_directive # <<>>
    THEN failed(yaml_parser_set_parser_error(
                    p, "found duplicate %YAML directive", token.start_mark))
    ELSE IF token.type = "VERSION_DIRECTIVE"
            /\ IncompatibleVersion(token.major, token.minor)
    THEN failed(yaml_parser_set_parser_error(
                    p, "found incompatible YAML document", token.start_mark))
    ELSE LET value == [handle |-> token.handle, prefix |-> token.prefix]
             r == IF token.type = "TAG_DIRECTIVE"
                  THEN yaml_parser_append_tag_directive(p, value, FALSE, token.start_mark)
                  ELSE [p |-> p, ok |-> TRUE]
         IN  IF ~r.ok THEN failed(r.p)
             ELSE UNION {DirectivesLoop(
                             pt[1], pt[2],
                             IF token.type = "VERSION_DIRECTIVE"
                             THEN <<token.major, token.minor>> ELSE version_directive,
                             IF token.type = "TAG_DIRECTIVE"
                             THEN Append(tag_directives, value) ELSE tag_directives) :
                            pt \in PEEK_TOKEN(SKIP_TOKEN(r.p))}

yaml_parser_process_directives(p) ==
    UNION {DirectivesLoop(pt[1], pt[2], <<>>, <<>>) : pt \in PEEK_TOKEN(p)}

\* `while token is DOCUMENT-END { SKIP_TOKEN; token = PEEK_TOKEN }` of an explicit
\* document start: the pairs <<parser, token>> the loop can end with.  k counts the
\* tokens skipped, which bounds the run a free scanner produces.
RECURSIVE SkipDocumentEnds(_, _, _)
SkipDocumentEnds(p, token, k) ==
    IF token.type = "DOCUMENT_END"
    THEN UNION {SkipDocumentEnds(pt[1], pt[2], k + 1) :
                   pt \in {x \in PEEK_TOKEN(SKIP_TOKEN(p)) :
                              \/ ~p.input.free
                              \/ k + 1 < MaxDocEndRun
                              \/ x[2].type # "DOCUMENT_END"}}
    ELSE {<<p, token>>}

yaml_parser_parse_document_start(p, implicit) ==
    UNION {IF token.type = "NULL" THEN Fail(q)
           ELSE IF implicit /\ token.type \notin {"VERSION_DIRECTIVE", "TAG_DIRECTIVE",
                                                  "DOCUMENT_START", "STREAM_END"}
           THEN UNION {IF ~r.ok THEN Fail(r.p)
                       ELSE Ok([PUSH_state(r.p, "DOCUMENT_END") EXCEPT
                                   !.state = "BLOCK_NODE"],
                               [Event("DOCUMENT_START", token.start_mark,
                                      token.start_mark) EXCEPT !.implicit = 1]) :
                          r \in yaml_parser_process_directives(q)}
           ELSE IF token.type # "STREAM_END"
           THEN UNION {IF ~r.ok THEN Fail(r.p)
                       ELSE UNION {
                           IF token2.type = "NULL" THEN Fail(q2)
                           ELSE IF token2.type # "DOCUMENT_START"
                           THEN Fail(yaml_parser_set_parser_error(
                                    q2, "did not find expected <document start>",
                                    token2.start_mark))
                           ELSE Ok(SKIP_TOKEN([PUSH_state(q2, "DOCUMENT_END") EXCEPT
                                                  !.state = "DOCUMENT_CONTENT"]),
                                   [Event("DOCUMENT_START", token.start_mark,
                                          token2.end_mark)
                                       EXCEPT !.version_directive = r.version_directive,
                                              !.tag_directives = r.tag_directives,
                                              !.implicit = 0]) :
                              <<q2, token2>> \in PEEK_TOKEN(r.p)} :
                          r \in yaml_parser_process_directives(q)}
           ELSE Ok(SKIP_TOKEN([q EXCEPT !.state = "END"]),
                   Event("STREAM_END", token.start_mark, token.end_mark)) :
              <<q, token>> \in
                  UNION {IF token0.type = "NULL" \/ implicit THEN {<<q0, token0>>}
                         ELSE SkipDocumentEnds(q0, token0, 0) :
                            <<q0, token0>> \in PEEK_TOKEN(p)}}

\* The end of a document reported as explicit whatever the token.
yaml_parser_parse_document_end_explicit(p) ==
    UNION {IF token.type = "NULL" THEN Fail(q)
           ELSE Ok([(IF token.type = "DOCUMENT_END" THEN SKIP_TOKEN(q) ELSE q) EXCEPT
                       !.tag_directives = <<>>, !.state = "DOCUMENT_START"],
                   [Event("DOCUMENT_END", token.start_mark,
                          IF token.type = "DOCUMENT_END" THEN token.end_mark
                                                         ELSE token.start_mark)
                       EXCEPT !.implicit = 0]) :
              <<q, token>> \in PEEK_TOKEN(p)}

\* The end of a document that leaves the table of tag directives as it is.
yaml_parser_parse_document_end_keeps_directives(p) ==
    UNION {IF token.type = "NULL" THEN Fail(q)
           ELSE Ok([(IF token.type = "DOCUMENT_END" THEN SKIP_TOKEN(q) ELSE q) EXCEPT
                       !.state = "DOCUMENT_START"],
                   [Event("DOCUMENT_END", token.start_mark,
                          IF token.type = "DOCUMENT_END" THEN token.end_mark
                                                         ELSE token.start_mark)
                       EXCEPT !.implicit = IF token.type = "DOCUMENT_END" THEN 0
                                           ELSE 1]) :
              <<q, token>> \in PEEK_TOKEN(p)}

yaml_parser_parse_document_end(p) ==
    UNION {IF token.type = "NULL" THEN Fail(q)
           ELSE Ok([(IF token.type = "DOCUMENT_END" THEN SKIP_TOKEN(q) ELSE q) EXCEPT
                       !.tag_directives = <<>>, !.state = "DOCUMENT_START"],
                   [Event("DOCUMENT_END", token.start_mark,
                          IF token.type = "DOCUMENT_END" THEN token.end_mark
                                                         ELSE token.start_mark)
                       EXCEPT !.implicit = IF token.type = "DOCUMENT_END" THEN 0
                                           ELSE 1]) :
              <<q, token>> \in PEEK_TOKEN(p)}

\* The first of a non-empty set of indices.
Min(S) == CHOOSE i \in S : \A j \in S : i <= j

\* The entries of the table of tag directives declaring tag_handle.
TagDirectivesFor(tag_directives, tag_handle) ==
    {i \in 1..Len(tag_directives) : tag_directives[i].handle = tag_handle}

\* A resolution that forgets the directive's prefix.
ResolveTag_without_prefix(tag_directives, tag_handle, tag_suffix) ==
    IF tag_handle = NULL THEN NULL
    ELSE IF tag_handle = "" THEN tag_suffix
    ELSE IF TagDirectivesFor(tag_directives, tag_handle) = {} THEN NULL
    ELSE tag_suffix

\* The tag of a node from its TAG token: none without a token, the suffix when the
\* handle is empty, else the prefix of the first directive declaring the handle,
\* followed by the suffix (none when no directive declares it).
ResolveTag(tag_directives, tag_handle, tag_suffix) ==
    LET found == TagDirectivesFor(tag_directives, tag_handle)
    IN  IF tag_handle = NULL THEN NULL
        ELSE IF tag_handle = "" THEN tag_suffix
        ELSE IF found = {} THEN NULL
        ELSE tag_directives[Min(found)].prefix \o tag_suffix

\* The properties of a node, `&anchor !tag` in either order: the records of the
\* parser, the token after the properties (NoToken when the scanner failed) and
\* what the ANCHOR and TAG tokens held.
yaml_parser_parse_node_properties(q, token) ==
    LET Properties(q1, token1, anchor, tag_handle, tag_suffix, end_mark, tag_mark) ==
            [p |-> q1, token |-> token1, anchor |-> anchor,
             tag_handle |-> tag_handle, tag_suffix |-> tag_suffix,
             start_mark |-> token.start_mark, end_mark |-> end_mark,
             tag_mark |-> tag_mark]
    IN  IF token.type = "ANCHOR"
        THEN UNION {IF token2.type = "TAG"
                    THEN {Properties(q3, token3, token.value, token2.handle,
                                     token2.suffix, token2.end_mark,
                                     token2.start_mark) :
                             <<q3, token3>> \in PEEK_TOKEN(SKIP_TOKEN(q2))}
                    ELSE {Properties(q2, token2, token.value, NULL, NULL,
                                     token.end_mark, 0)} :
                       <<q2, token2>> \in PEEK_TOKEN(SKIP_TOKEN(q))}
        ELSE IF token.type = "TAG"
        THEN UNION {IF token2.type = "ANCHOR"
                    THEN {Properties(q3, token3, token2.value, token.handle,
                                     token.suffix, token2.end_mark,
                                     token.start_mark) :
                             <<q3, token3>> \in PEEK_TOKEN(SKIP_TOKEN(q2))}
                    ELSE {Properties(q2, token2, NULL, token.handle, token.suffix,
                                     token.end_mark, token.start_mark)} :
                       <<q2, token2>> \in PEEK_TOKEN(SKIP_TOKEN(q))}
        ELSE {Properties(q, token, NULL, NULL, NULL, token.start_mark, 0)}

\* A scalar never marked as implicitly quoted.
QuotedImplicit_never(plain, tag) == 0

\* `else if tag.is_null() { quoted_implicit = 1 }` of a SCALAR token that is not
\* implicitly plain.
QuotedImplicit(plain, tag) == IF ~plain /\ tag = NULL THEN 1 ELSE 0

\* From the token after the node's properties: the tag is resolved against the
\* table of tag directives, then the token decides the event.
yaml_parser_parse_node_content(node, block, indentless_sequence) ==
    LET q == node.p
        token == node.token
        found == TagDirectivesFor(q.tag_directives, node.tag_handle)
        tag == ResolveTag(q.tag_directives, node.tag_handle, node.tag_suffix)
        implicit == IF tag = NULL \/ tag = "" THEN 1 ELSE 0
        Collection(type, state, style) ==
            Ok([q EXCEPT !.state = state],
               [Event(type, node.start_mark, token.end_mark) EXCEPT
                   !.anchor = node.anchor, !.tag = tag, !.implicit = implicit,
                   !.style = style])
    IN
    IF token.type = "NULL" THEN Fail(q)
    ELSE IF node.tag_handle # NULL /\ node.tag_handle # "" /\ found = {}
    THEN Fail(yaml_parser_set_parser_error_context(
             q, "while parsing a node", node.start_mark,
             "found undefined tag handle", node.tag_mark))
    ELSE IF indentless_sequence /\ token.type = "BLOCK_ENTRY"
    THEN Collection("SEQUENCE_START", "INDENTLESS_SEQUENCE_ENTRY", "BLOCK_SEQUENCE")
    ELSE IF token.type = "SCALAR"
    THEN LET plain == \/ (token.style = "PLAIN" /\ tag = NULL)
                      \/ (tag # NULL /\ tag = "!")
         IN  UNION {Ok(SKIP_TOKEN(r),
                       [Event("SCALAR", node.start_mark, token.end_mark) EXCEPT
                           !.anchor = node.anchor, !.tag = tag,
                           !.value = token.value,
                           !.plain_implicit = IF plain THEN 1 ELSE 0,
                           !.quoted_implicit = QuotedImplicit(plain, tag),
                           !.style = token.style]) :
                      r \in POP_state(q)}
    ELSE IF token.type = "FLOW_SEQUENCE_START"
    THEN Collection("SEQUENCE_START", "FLOW_SEQUENCE_FIRST_ENTRY", "FLOW_SEQUENCE")
    ELSE IF token.type = "FLOW_MAPPING_START"
    THEN Collection("MAPPING_START", "FLOW_MAPPING_FIRST_KEY", "FLOW_MAPPING")
    ELSE IF block /\ token.type = "BLOCK_SEQUENCE_START"
    THEN Collection("SEQUENCE_START", "BLOCK_SEQUENCE_FIRST_ENTRY", "BLOCK_SEQUENCE")
    ELSE IF block /\ token.type = "BLOCK_MAPPING_START"
    THEN Collection("MAPPING_START", "BLOCK_MAPPING_FIRST_KEY", "BLOCK_MAPPING")
    ELSE IF node.anchor # NULL \/ tag # NULL
    THEN UNION {Ok(r, [Event("SCALAR", node.start_mark, node.end_mark) EXCEPT
                          !.anchor = node.anchor, !.tag = tag, !.value = "",
                          !.plain_implicit = implicit,
                          !.quoted_implicit = 0, !.style = "PLAIN"]) :
                   r \in POP_state(q)}
    ELSE Fail(yaml_parser_set_parser_error_context(
             q,
             IF block THEN "while parsing a block node"
                      ELSE "while parsing a flow node",
             node.start_mark, "did not find expected node content",
             token.start_mark))

yaml_parser_parse_node(p, block, indentless_sequence) ==
    UNION {IF token.type = "NULL" THEN Fail(q)
           ELSE IF token.type = "ALIAS"
           THEN UNION {Ok(SKIP_TOKEN(r),
                          [Event("ALIAS", token.start_mark, token.end_mark) EXCEPT
                              !.anchor = token.value]) :
                         r \in POP_state(q)}
           ELSE UNION {yaml_parser_parse_node_content(node, block, indentless_sequence) :
                          node \in yaml_parser_parse_node_properties(q, token)} :
              <<q, token>> \in PEEK_TOKEN(p)}

\* A document's content that is always parsed as a node.
yaml_parser_parse_document_content_as_node(p) == yaml_parser_parse_node(p, TRUE, FALSE)

yaml_parser_parse_document_content(p) ==
    UNION {IF token.type = "NULL" THEN Fail(q)
           ELSE IF token.type \in {"VERSION_DIRECTIVE", "TAG_DIRECTIVE",
                                   "DOCUMENT_START", "DOCUMENT_END", "STREAM_END"}
           THEN UNION {yaml_parser_process_empty_scalar(r, token.start_mark) :
                          r \in POP_state(q)}
           ELSE yaml_parser_parse_node(q, TRUE, FALSE) :
              <<q, token>> \in PEEK_TOKEN(p)}

\* The prologue of the handlers of a collection's first entry:
\* `token = PEEK_TOKEN; PUSH(marks, token.start_mark); SKIP_TOKEN`.  The token is
\* dereferenced unchecked.
EnterCollection(p, first) ==
    IF first
    THEN {IF pt[2].type = "NULL" THEN [pt[1] EXCEPT !.ub = TRUE]
          ELSE SKIP_TOKEN(PUSH_mark(pt[1], pt[2].start_mark)) : pt \in PEEK_TOKEN(p)}
    ELSE {p}

\* The mark on top of the marks stack, read by the error paths after the pop.
TopMark(p) == IF p.marks = <<>> THEN 0 ELSE Top(p.marks)

yaml_parser_parse_block_sequence_entry(p, first) ==
    UNION {IF token.type = "NULL" THEN Fail(q)
           ELSE IF token.type = "BLOCK_ENTRY"
           THEN UNION {IF token2.type = "NULL" THEN Fail(q2)
                       ELSE IF token2.type \notin {"BLOCK_ENTRY", "BLOCK_END"}
                       THEN yaml_parser_parse_node(
                                PUSH_state(q2, "BLOCK_SEQUENCE_ENTRY"), TRUE, FALSE)
                       ELSE yaml_parser_process_empty_scalar(
                                [q2 EXCEPT !.state = "BLOCK_SEQUENCE_ENTRY"],
                                token.end_mark) :
                          <<q2, token2>> \in PEEK_TOKEN(SKIP_TOKEN(q))}
           ELSE IF token.type = "BLOCK_END"
           THEN UNION {Ok(SKIP_TOKEN(POP_mark(r)),
                          Event("SEQUENCE_END", token.start_mark, token.end_mark)) :
                          r \in POP_state(q)}
           ELSE Fail(yaml_parser_set_parser_error_context(
                    POP_mark(q), "while parsing a block collection", TopMark(q),
                    "did not find expected '-' indicator", token.start_mark)) :
              <<q, token>> \in UNION {PEEK_TOKEN(q0) : q0 \in EnterCollection(p, first)}}

\* An indentless sequence that ends like a block sequence, at BLOCK-END only.
yaml_parser_parse_indentless_sequence_entry_block(p) ==
    yaml_parser_parse_block_sequence_entry(p, FALSE)

yaml_parser_parse_indentless_sequence_entry(p) ==
    UNION {IF token.type = "NULL" THEN Fail(q)
           ELSE IF token.type = "BLOCK_ENTRY"
           THEN UNION {IF token2.type = "NULL" THEN Fail(q2)
                       ELSE IF token2.type \notin {"BLOCK_ENTRY", "KEY", "VALUE",
                                                   "BLOCK_END"}
                       THEN yaml_parser_parse_node(
                                PUSH_state(q2, "INDENTLESS_SEQUENCE_ENTRY"),
                                TRUE, FALSE)
                       ELSE yaml_parser_process_empty_scalar(
                                [q2 EXCEPT !.state = "INDENTLESS_SEQUENCE_ENTRY"],
                                token.end_mark) :
                          <<q2, token2>> \in PEEK_TOKEN(SKIP_TOKEN(q))}
           ELSE UNION {Ok(r, Event("SEQUENCE_END", token.start_mark,
                                   token.start_mark)) :
                          r \in POP_state(q)} :
              <<q, token>> \in PEEK_TOKEN(p)}

yaml_parser_parse_block_mapping_key(p, first) ==
    UNION {IF token.type = "NULL" THEN Fail(q)
           ELSE IF token.type = "KEY"
           THEN UNION {IF token2.type = "NULL" THEN Fail(q2)
                       ELSE IF token2.type \notin {"KEY", "VALUE", "BLOCK_END"}
                       THEN yaml_parser_parse_node(
                                PUSH_state(q2, "BLOCK_MAPPING_VALUE"), TRUE, TRUE)
                       ELSE yaml_parser_process_empty_scalar(
                                [q2 EXCEPT !.state = "BLOCK_MAPPING_VALUE"],
                                token.end_mark) :
                          <<q2, token2>> \in PEEK_TOKEN(SKIP_TOKEN(q))}
           ELSE IF token.type = "BLOCK_END"
           THEN UNION {Ok(SKIP_TOKEN(POP_mark(r)),
                          Event("MAPPING_END", token.start_mark, token.end_mark)) :
                          r \in POP_state(q)}
           ELSE Fail(yaml_parser_set_parser_error_context(
                    POP_mark(q), "while parsing a block mapping", TopMark(q),
                    "did not find expected key", token.start_mark)) :
              <<q, token>> \in UNION {PEEK_TOKEN(q0) : q0 \in EnterCollection(p, first)}}

yaml_parser_parse_block_mapping_value(p) ==
    UNION {IF token.type = "NULL" THEN Fail(q)
           ELSE IF token.type = "VALUE"
           THEN UNION {IF token2.type = "NULL" THEN Fail(q2)
                       ELSE IF token2.type \notin {"KEY", "VALUE", "BLOCK_END"}
                       THEN yaml_parser_parse_node(
                                PUSH_state(q2, "BLOCK_MAPPING_KEY"), TRUE, TRUE)
                       ELSE yaml_parser_process_empty_scalar(
                                [q2 EXCEPT !.state = "BLOCK_MAPPING_KEY"],
                                token.end_mark) :
                          <<q2, token2>> \in PEEK_TOKEN(SKIP_TOKEN(q))}
           ELSE yaml_parser_process_empty_scalar(
                    [q EXCEPT !.state = "BLOCK_MAPPING_KEY"], token.start_mark) :
              <<q, token>> \in PEEK_TOKEN(p)}

\* `if !first { if token is FLOW-ENTRY { SKIP_TOKEN; token = PEEK_TOKEN } }` of the
\* flow handlers: the pairs <<parser, token>> the entry is parsed from.  A token
\* that is neither the collection's end nor the separator is dealt with before.
AfterFlowEntry(q, token, first, end) ==
    IF token.type # end /\ ~first THEN PEEK_TOKEN(SKIP_TOKEN(q)) ELSE {<<q, token>>}

yaml_parser_parse_flow_sequence_entry(p, first) ==
    UNION {IF token.type = "NULL" THEN Fail(q)
           ELSE IF token.type # "FLOW_SEQUENCE_END" /\ ~first
                   /\ token.type # "FLOW_ENTRY"
           THEN Fail(yaml_parser_set_parser_error_context(
                    POP_mark(q), "while parsing a flow sequence", TopMark(q),
                    "did not find expected ',' or ']'", token.start_mark))
           ELSE UNION {IF token2.type = "NULL" THEN Fail(q2)
                       ELSE IF token2.type = "KEY"
                       THEN Ok(SKIP_TOKEN([q2 EXCEPT
                                   !.state = "FLOW_SEQUENCE_ENTRY_MAPPING_KEY"]),
                               [Event("MAPPING_START", token2.start_mark,
                                      token2.end_mark) EXCEPT
                                   !.implicit = 1, !.style = "FLOW_MAPPING"])
                       ELSE IF token2.type # "FLOW_SEQUENCE_END"
                       THEN yaml_parser_parse_node(
                                PUSH_state(q2, "FLOW_SEQUENCE_ENTRY"), FALSE, FALSE)
                       ELSE UNION {Ok(SKIP_TOKEN(POP_mark(r)),
                                      Event("SEQUENCE_END", token2.start_mark,
                                            token2.end_mark)) :
                                      r \in POP_state(q2)} :
                          <<q2, token2>> \in
                              AfterFlowEntry(q, token, first, "FLOW_SEQUENCE_END")} :
              <<q, token>> \in UNION {PEEK_TOKEN(q0) : q0 \in EnterCollection(p, first)}}

yaml_parser_parse_flow_sequence_entry_mapping_key(p) ==
    UNION {IF token.type = "NULL" THEN Fail(q)
           ELSE IF token.type \notin {"VALUE", "FLOW_ENTRY", "FLOW_SEQUENCE_END"}
           THEN yaml_parser_parse_node(
                    PUSH_state(q, "FLOW_SEQUENCE_ENTRY_MAPPING_VALUE"), FALSE, FALSE)
           ELSE yaml_parser_process_empty_scalar(
                    [SKIP_TOKEN(q) EXCEPT
                        !.state = "FLOW_SEQUENCE_ENTRY_MAPPING_VALUE"],
                    token.end_mark) :
              <<q, token>> \in PEEK_TOKEN(p)}

yaml_parser_parse_flow_sequence_entry_mapping_value(p) ==
    LET Empty(q, token) ==
            yaml_parser_process_empty_scalar(
                [q EXCEPT !.state = "FLOW_SEQUENCE_ENTRY_MAPPING_END"],
                token.start_mark)
    IN  UNION {IF token.type = "NULL" THEN Fail(q)
               ELSE IF token.type = "VALUE"
               THEN UNION {IF token2.type = "NULL" THEN Fail(q2)
                           ELSE IF token2.type \notin {"FLOW_ENTRY",
                                                       "FLOW_SEQUENCE_END"}
                           THEN yaml_parser_parse_node(
                                    PUSH_state(q2, "FLOW_SEQUENCE_ENTRY_MAPPING_END"),
                                    FALSE, FALSE)
                           ELSE Empty(q2, token2) :
                              <<q2, token2>> \in PEEK_TOKEN(SKIP_TOKEN(q))}
               ELSE Empty(q, token) :
                  <<q, token>> \in PEEK_TOKEN(p)}

\* The handler closing the single-pair mapping with the event of a sequence's end.
yaml_parser_parse_flow_sequence_entry_mapping_end_closes_sequence(p) ==
    UNION {IF token.type = "NULL" THEN Fail(q)
           ELSE Ok([q EXCEPT !.state = "FLOW_SEQUENCE_ENTRY"],
                   Event("SEQUENCE_END", token.start_mark, token.start_mark)) :
              <<q, token>> \in PEEK_TOKEN(p)}

yaml_parser_parse_flow_sequence_entry_mapping_end(p) ==
    UNION {IF token.type = "NULL" THEN Fail(q)
           ELSE Ok([q EXCEPT !.state = "FLOW_SEQUENCE_ENTRY"],
                   Event("MAPPING_END", token.start_mark, token.start_mark)) :
              <<q, token>> \in PEEK_TOKEN(p)}

yaml_parser_parse_flow_mapping_key(p, first) ==
    UNION {IF token.type = "NULL" THEN Fail(q)
           ELSE IF token.type # "FLOW_MAPPING_END" /\ ~first
                   /\ token.type # "FLOW_ENTRY"
           THEN Fail(yaml_parser_set_parser_error_context(
                    POP_mark(q), "while parsing a flow mapping", TopMark(q),
                    "did not find expected ',' or '}'", token.start_mark))
           ELSE UNION {IF token2.type = "NULL" THEN Fail(q2)
                       ELSE IF token2.type = "KEY"
                       THEN UNION {IF token3.type = "NULL" THEN Fail(q3)
                                   ELSE IF token3.type \notin {"VALUE", "FLOW_ENTRY",
                                                               "FLOW_MAPPING_END"}
                                   THEN yaml_parser_parse_node(
                                            PUSH_state(q3, "FLOW_MAPPING_VALUE"),
                                            FALSE, FALSE)
                                   ELSE yaml_parser_process_empty_scalar(
                                            [q3 EXCEPT !.state = "FLOW_MAPPING_VALUE"],
                                            token3.start_mark) :
                                      <<q3, token3>> \in PEEK_TOKEN(SKIP_TOKEN(q2))}
                       ELSE IF token2.type # "FLOW_MAPPING_END"
                       THEN yaml_parser_parse_node(
                                PUSH_state(q2, "FLOW_MAPPING_EMPTY_VALUE"),
                                FALSE, FALSE)
                       ELSE UNION {Ok(SKIP_TOKEN(POP_mark(r)),
                                      Event("MAPPING_END", token2.start_mark,
                                            token2.end_mark)) :
                                      r \in POP_state(q2)} :
                          <<q2, token2>> \in
                              AfterFlowEntry(q, token, first, "FLOW_MAPPING_END")} :
              <<q, token>> \in UNION {PEEK_TOKEN(q0) : q0 \in EnterCollection(p, first)}}

yaml_parser_parse_flow_mapping_value(p, empty) ==
    LET Empty(q, token) ==
            yaml_parser_process_empty_scalar(
                [q EXCEPT !.state = "FLOW_MAPPING_KEY"], token.start_mark)
    IN  UNION {IF token.type = "NULL" THEN Fail(q)
               ELSE IF empty THEN Empty(q, token)
               ELSE IF token.type = "VALUE"
               THEN UNION {IF token2.type = "NULL" THEN Fail(q2)
                           ELSE IF token2.type \notin {"FLOW_ENTRY",
                                                       "FLOW_MAPPING_END"}
                           THEN yaml_parser_parse_node(
                                    PUSH_state(q2, "FLOW_MAPPING_KEY"), FALSE, FALSE)
                           ELSE Empty(q2, token2) :
                              <<q2, token2>> \in PEEK_TOKEN(SKIP_TOKEN(q))}
               ELSE Empty(q, token) :
                  <<q, token>> \in PEEK_TOKEN(p)}

yaml_parser_state_machine(p) ==
    CASE p.state = "STREAM_START" -> yaml_parser_parse_stream_start(p)
      [] p.state = "IMPLICIT_DOCUMENT_START" -> yaml_parser_parse_document_start(p, TRUE)
      [] p.state = "DOCUMENT_START" -> yaml_parser_parse_document_start(p, FALSE)
      [] p.state = "DOCUMENT_CONTENT" -> yaml_parser_parse_document_content(p)
      [] p.state = "DOCUMENT_END" -> yaml_parser_parse_document_end(p)
      [] p.state = "BLOCK_NODE" -> yaml_parser_parse_node(p, TRUE, FALSE)
      [] p.state = "BLOCK_NODE_OR_INDENTLESS_SEQUENCE" ->
             yaml_parser_parse_node(p, TRUE, TRUE)
      [] p.state = "FLOW_NODE" -> yaml_parser_parse_node(p, FALSE, FALSE)
      [] p.state = "BLOCK_SEQUENCE_FIRST_ENTRY" ->
             yaml_parser_parse_block_sequence_entry(p, TRUE)
      [] p.state = "BLOCK_SEQUENCE_ENTRY" ->
             yaml_parser_parse_block_sequence_entry(p, FALSE)
      [] p.state = "INDENTLESS_SEQUENCE_ENTRY" ->
             yaml_parser_parse_indentless_sequence_entry(p)
      [] p.state = "BLOCK_MAPPING_FIRST_KEY" ->
             yaml_parser_parse_block_mapping_key(p, TRUE)
      [] p.state = "BLOCK_MAPPING_KEY" -> yaml_parser_parse_block_mapping_key(p, FALSE)
      [] p.state = "BLOCK_MAPPING_VALUE" -> yaml_parser_parse_block_mapping_value(p)
      [] p.state = "FLOW_SEQUENCE_FIRST_ENTRY" ->
             yaml_parser_parse_flow_sequence_entry(p, TRUE)
      [] p.state = "FLOW_SEQUENCE_ENTRY" ->
             yaml_parser_parse_flow_sequence_entry(p, FALSE)
      [] p.state = "FLOW_SEQUENCE_ENTRY_MAPPING_KEY" ->
             yaml_parser_parse_flow_sequence_entry_mapping_key(p)
      [] p.state = "FLOW_SEQUENCE_ENTRY_MAPPING_VALUE" ->
             yaml_parser_parse_flow_sequence_entry_mapping_value(p)
      [] p.state = "FLOW_SEQUENCE_ENTRY_MAPPING_END" ->
             yaml_parser_parse_flow_sequence_entry_mapping_end(p)
      [] p.state = "FLOW_MAPPING_FIRST_KEY" ->
             yaml_parser_parse_flow_mapping_key(p, TRUE)
      [] p.state = "FLOW_MAPPING_KEY" -> yaml_parser_parse_flow_mapping_key(p, FALSE)
      [] p.state = "FLOW_MAPPING_VALUE" -> yaml_parser_parse_flow_mapping_value(p, FALSE)
      [] p.state = "FLOW_MAPPING_EMPTY_VALUE" ->
             yaml_parser_parse_flow_mapping_value(p, TRUE)
      [] OTHER -> Fail(p)

\* The outcomes of one call: no event and success once the stream has ended, an
\* error is set, or the parser is in its END state.
yaml_parser_parse(p) ==
    IF p.stream_end_produced \/ p.error # "YAML_NO_ERROR" \/ p.state = "END"
    THEN {[p |-> p, event |-> NoEvent, ret |-> 1]}
    ELSE yaml_parser_state_machine(p)

(***************************************************************************)
(* History of the events returned, kept beside the parser.                 *)
(***************************************************************************)
Opening == [STREAM_START |-> "STREAM", DOCUMENT_START |-> "DOCUMENT",
            SEQUENCE_START |-> "SEQUENCE", MAPPING_START |-> "MAPPING"]

Closing == [STREAM_END |-> "STREAM", DOCUMENT_END |-> "DOCUMENT",
            SEQUENCE_END |-> "SEQUENCE", MAPPING_END |-> "MAPPING"]

\* Where an event may occur: a stream only at the very start, a document only
\* in the stream, a node only in a document or a collection.
MayOccur(stack, type) ==
    CASE type = "STREAM_START" -> stack = <<>>
      [] type = "DOCUMENT_START" -> stack # <<>> /\ Top(stack) = "STREAM"
      [] type \in DOMAIN Closing -> stack # <<>> /\ Top(stack) = Closing[type]
      [] OTHER -> stack # <<>> /\ Top(stack) \in {"DOCUMENT", "SEQUENCE", "MAPPING"}

\* The stack of unclosed openings after an event; <<"END">> once the stream closed.
Opened(stack, type) ==
    IF type \in DOMAIN Opening THEN Append(stack, Opening[type])
    ELSE IF type = "STREAM_END" THEN <<"END">>
    ELSE IF type \in DOMAIN Closing /\ stack # <<>> THEN Pop(stack)
    ELSE stack

(***************************************************************************)
(* The emitter (src/src/emitter.rs).  One call of Emitter::emit is one     *)
(* step of the model.  A Rust string is a sequence of one-character        *)
(* strings, an Option is the empty sequence (None) or a sequence of one    *)
(* element (Some), and the Result a function returns is carried in the     *)
(* emitter record: result is "Ok" until a function returns Err or panics,  *)
(* and the ? operator is Try, which skips the rest once result is not Ok.  *)
(***************************************************************************)
OUTPUT_BUFFER_SIZE == 16384

I32_MAX == 2147483647

None == <<>>

Some(x) == <<x>>

is_some(option) == option # <<>>

unwrap(option) == option[1]

\* The events of the emitter: a record with the fields of every EventData
\* variant, the fields of the other variants keeping a default value.
EmitterEvent(type) ==
    [type |-> type, encoding |-> "Any", version_directive |-> None,
     tag_directives |-> <<>>, implicit |-> FALSE, anchor |-> None, tag |-> None,
     value |-> <<>>, plain_implicit |-> FALSE, quoted_implicit |-> FALSE,
     style |-> "Any"]

StreamStartEvent(encoding) == [EmitterEvent("StreamStart") EXCEPT !.encoding = encoding]

StreamEndEvent == EmitterEvent("StreamEnd")

DocumentStartEvent(version_directive, tag_directives, implicit) ==
    [EmitterEvent("DocumentStart") EXCEPT !.version_directive = version_directive,
        !.tag_directives = tag_directives, !.implicit = implicit]

DocumentEndEvent(implicit) == [EmitterEvent("DocumentEnd") EXCEPT !.implicit = implicit]

AliasEvent(anchor) == [EmitterEvent("Alias") EXCEPT !.anchor = Some(anchor)]

ScalarEvent(anchor, tag, value, plain_implicit, quoted_implicit, style) ==
    [EmitterEvent("Scalar") EXCEPT !.anchor = anchor, !.tag = tag, !.value = value,
        !.plain_implicit = plain_implicit, !.quoted_implicit = quoted_implicit,
        !.style = style]

SequenceStartEvent(anchor, tag, implicit, style) ==
    [EmitterEvent("SequenceStart") EXCEPT !.anchor = anchor, !.tag = tag,
        !.implicit = implicit, !.style = style]

SequenceEndEvent == EmitterEvent("SequenceEnd")

MappingStartEvent(anchor, tag, implicit, style) ==
    [EmitterEvent("MappingStart") EXCEPT !.anchor = anchor, !.tag = tag,
        !.implicit = implicit, !.style = style]

MappingEndEvent == EmitterEvent("MappingEnd")

\* Emitter::new.  write_handler models the borrowed writer: whether one is
\* set, whether its write_all fails during the current call, and what it has
\* been given so far.  result and problem are the Result of the running call.
Emitter_new ==
    [write_handler |-> [set |-> FALSE, fails |-> FALSE, written |-> <<>>],
     buffer |-> <<>>, raw_buffer |-> <<>>, encoding |-> "Any", canonical |-> FALSE,
     best_indent |-> 0, best_sequence_indent |-> 0, best_width |-> 0,
     unicode |-> FALSE, line_break |-> "Any", states |-> <<>>,
     state |-> "StreamStart", events |-> <<>>, indents |-> <<>>,
     tag_directives |-> <<>>, indent |-> 0, flow_level |-> 0,
     root_context |-> FALSE, sequence_context |-> FALSE,
     mapping_context |-> FALSE, simple_key_context |-> FALSE, line |-> 0,
     column |-> 0, whitespace |-> FALSE, indention |-> FALSE, open_ended |-> 0,
     opened |-> FALSE, closed |-> FALSE, result |-> "Ok", problem |-> NULL,
     steps |-> <<>>, selected |-> <<>>]

\* Emitter::set_output: a writer is attached, the encoding is left as it is.
set_output(e) == [e EXCEPT !.write_handler.set = TRUE]

set_canonical(e, canonical) == [e EXCEPT !.canonical = canonical]

set_width(e, width) == [e EXCEPT !.best_width = IF width >= 0 THEN width ELSE -1]

\* The ? operator: the rest of the function runs only after an Ok.
Try(e, Rest(_)) == IF e.result = "Ok" THEN Rest(e) ELSE e

Err(e, problem) == [e EXCEPT !.result = "Err", !.problem = problem]

Panic(e, problem) == [e EXCEPT !.result = "Panic", !.problem = problem]

\* The UTF-16 code units of a buffer: each character with the byte order.
encode_utf16(buffer, encoding) == [i \in 1..Len(buffer) |-> <<buffer[i], encoding>>]

flush(e) ==
    IF ~e.write_handler.set \/ e.encoding = "Any"
    THEN Panic(e, "assertion failed")
    ELSE IF e.buffer = <<>>
    THEN e
    ELSE IF e.encoding = "Utf8"
    THEN IF e.write_handler.fails
         THEN Err(e, "write error")
         ELSE [e EXCEPT !.write_handler.written = @ \o e.buffer, !.buffer = <<>>]
    ELSE LET raw == e.raw_buffer \o encode_utf16(e.buffer, e.encoding)
         IN  IF e.write_handler.fails
             THEN Err([e EXCEPT !.raw_buffer = raw], "write error")
             ELSE [e EXCEPT !.write_handler.written = @ \o raw,
                            !.buffer = <<>>, !.raw_buffer = <<>>]

flush_if_needed(e) ==
    IF Len(e.buffer) < OUTPUT_BUFFER_SIZE - 5 THEN e ELSE flush(e)

put(e, value) ==
    Try(flush_if_needed(e),
        LAMBDA f : [f EXCEPT !.buffer = Append(@, value), !.column = @ + 1])

put_break(e) ==
    Try(flush_if_needed(e),
        LAMBDA f : [f EXCEPT
            !.buffer = CASE f.line_break = "Cr" -> Append(@, "\r")
                         [] f.line_break = "Ln" -> Append(@, "\n")
                         [] f.line_break = "CrLn" -> @ \o <<"\r", "\n">>
                         [] OTHER -> @,
            !.column = 0, !.line = @ + 1])

write_str(e, string) ==
    Try(IF Len(e.buffer) + Len(string) > OUTPUT_BUFFER_SIZE THEN flush(e) ELSE e,
        LAMBDA f : [f EXCEPT !.column = @ + Len(string), !.buffer = @ \o string])

write_char(e, ch) ==
    Try(flush_if_needed(e),
        LAMBDA f : [f EXCEPT !.buffer = Append(@, ch), !.column = @ + 1])

write_break(e, ch) ==
    Try(flush_if_needed(e),
        LAMBDA f : IF ch = "\n"
                   THEN put_break(f)
                   ELSE Try(write_char(f, ch),
                            LAMBDA g : [g EXCEPT !.column = 0, !.line = @ + 1]))

(***************************************************************************)
(* Character classes (crate::macros).  A character outside the ASCII       *)
(* range, and the grave accent, is written as the string that names its    *)
(* code point.                                                             *)
(***************************************************************************)
AlphaChars ==
    {"a", "b", "c", "d", "e", "f", "g", "h", "i", "j", "k", "l", "m",
     "n", "o", "p", "q", "r", "s", "t", "u", "v", "w", "x", "y", "z",
     "A", "B", "C", "D", "E", "F", "G", "H", "I", "J", "K", "L", "M",
     "N", "O", "P", "Q", "R", "S", "T", "U", "V", "W", "X", "Y", "Z",
     "0", "1", "2", "3", "4", "5", "6", "7", "8", "9", "_", "-"}

NonAsciiChars == {"U+00E9", "U+FEFF"}

is_alpha(ch) == ch \in AlphaChars

is_ascii(ch) == ch \notin NonAsciiChars

is_bom(ch) == ch = "U+FEFF"

is_printable(ch) == ch \notin {"\t", "\r", "\f", "U+FEFF"}

is_space(option) == option = Some(" ")

is_blank(option) == option \in {Some(" "), Some("\t")}

is_break(option) == option \in {Some("\r"), Some("\n")}

is_breakz(option) == is_break(option) \/ option = None

is_blankz(option) == is_blank(option) \/ is_breakz(option)

starts_with(string, prefix) ==
    /\ Len(prefix) <= Len(string)
    /\ SubSeq(string, 1, Len(prefix)) = prefix

(***************************************************************************)
(* The analysis of an event.  An analysis function returns its Result as a *)
(* record: result, problem, and the fields of the value it returns.        *)
(***************************************************************************)
analyze_version_directive(version_directive) ==
    IF \/ version_directive.major # 1
       \/ version_directive.minor # 1 /\ version_directive.minor # 2
    THEN [result |-> "Err", problem |-> "incompatible %YAML directive"]
    ELSE [result |-> "Ok", problem |-> NULL]

analyze_tag_directive(tag_directive) ==
    LET handle == tag_directive.handle
        problem ==
            IF handle = <<>> THEN "tag handle must not be empty"
            ELSE IF handle[1] # "!" THEN "tag handle must start with '!'"
            ELSE IF handle[Len(handle)] # "!" THEN "tag handle must end with '!'"
            ELSE IF /\ Len(handle) > 2
                    /\ \E i \in 2..(Len(handle) - 1) : ~is_alpha(handle[i])
            THEN "tag handle must contain alphanumerical characters only"
            ELSE IF tag_directive.prefix = <<>> THEN "tag prefix must not be empty"
            ELSE NULL
    IN  [result |-> IF problem = NULL THEN "Ok" ELSE "Err", problem |-> problem]

analyze_anchor(anchor, alias) ==
    IF anchor = <<>>
    THEN [result |-> "Err",
          problem |-> IF alias THEN "alias value must not be empty"
                               ELSE "anchor value must not be empty"]
    ELSE IF \E i \in 1..Len(anchor) : ~is_alpha(anchor[i])
    THEN [result |-> "Err",
          problem |-> IF alias
                      THEN "alias value must contain alphanumerical characters only"
                      ELSE "anchor value must contain alphanumerical characters only"]
    ELSE [result |-> "Ok", problem |-> NULL, anchor |-> anchor, alias |-> alias]

analyze_tag(tag, tag_directives) ==
    IF tag = <<>>
    THEN [result |-> "Err", problem |-> "tag value must not be empty"]
    ELSE LET matching == {i \in 1..Len(tag_directives) :
                             /\ Len(tag_directives[i].prefix) < Len(tag)
                             /\ starts_with(tag, tag_directives[i].prefix)}
         IN  IF matching = {}
             THEN [result |-> "Ok", problem |-> NULL, handle |-> <<>>, suffix |-> tag]
             ELSE LET tag_directive == tag_directives[Min(matching)]
                  IN  [result |-> "Ok", problem |-> NULL,
                       handle |-> tag_directive.handle,
                       suffix |-> SubSeq(tag, Len(tag_directive.prefix) + 1, Len(tag))]

\* An analyzer that allows every style for every value.
analyze_scalar_unrestricted(e, value) ==
    [value |-> value, multiline |-> FALSE, flow_plain_allowed |-> TRUE,
     block_plain_allowed |-> TRUE, single_quoted_allowed |-> TRUE,
     block_allowed |-> TRUE, style |-> "Any"]

\* An analyzer that takes every value for a multi-line one.
analyze_scalar_multiline(e, value) ==
    [value |-> value, multiline |-> TRUE, flow_plain_allowed |-> FALSE,
     block_plain_allowed |-> FALSE, single_quoted_allowed |-> TRUE,
     block_allowed |-> TRUE, style |-> "Any"]

\* A loop that looks at no character.
analyze_scalar_loop_skipped(value, i, unicode, s) == s

\* The loop of analyze_scalar from the character at index i on; s holds the
\* loop's local variables.
RECURSIVE analyze_scalar_loop(_, _, _, _)
analyze_scalar_loop(value, i, unicode, s) ==
    IF i > Len(value) THEN s
    ELSE
    LET ch == value[i]
        next == IF i < Len(value) THEN Some(value[i + 1]) ELSE None
        first == (i = 1)
        followed_by_whitespace == is_blankz(next)
        both == IF first
                THEN \/ ch \in {"#", ",", "[", "]", "{", "}", "&", "*", "!", "|",
                                ">", "'", "\"", "%", "@", "U+0060"}
                     \/ ch = "-" /\ followed_by_whitespace
                ELSE ch = "#" /\ s.preceded_by_whitespace
        flow == IF first THEN ch \in {"?", ":"}
                         ELSE ch \in {",", "?", "[", "]", "{", "}", ":"}
        block == IF first THEN ch \in {"?", ":"} /\ followed_by_whitespace
                          ELSE ch = ":" /\ followed_by_whitespace
        space == is_space(Some(ch))
        break == ~space /\ is_break(Some(ch))
    IN  analyze_scalar_loop(value, i + 1, unicode,
            [s EXCEPT
                !.flow_indicators = @ \/ both \/ flow,
                !.block_indicators = @ \/ both \/ block,
                !.special_characters =
                    @ \/ ~is_printable(ch) \/ (~is_ascii(ch) /\ ~unicode),
                !.line_breaks = @ \/ is_break(Some(ch)),
                !.leading_space = @ \/ (space /\ first),
                !.trailing_space = @ \/ (space /\ next = None),
                !.break_space = @ \/ (space /\ s.previous_break),
                !.leading_break = @ \/ (break /\ first),
                !.trailing_break = @ \/ (break /\ next = None),
                !.space_break = @ \/ (break /\ s.previous_space),
                !.previous_space = space,
                !.previous_break = break,
                !.preceded_by_whitespace = is_blankz(Some(ch))])

analyze_scalar(e, value) ==
    IF value = <<>>
    THEN [value |-> <<>>, multiline |-> FALSE, flow_plain_allowed |-> FALSE,
          block_plain_allowed |-> TRUE, single_quoted_allowed |-> TRUE,
          block_allowed |-> FALSE, style |-> "Any"]
    ELSE
    LET document_marker == \/ starts_with(value, <<"-", "-", "-">>)
                           \/ starts_with(value, <<".", ".", ".">>)
        s == analyze_scalar_loop(value, 1, e.unicode,
                [block_indicators |-> document_marker,
                 flow_indicators |-> document_marker,
                 line_breaks |-> FALSE, special_characters |-> FALSE,
                 leading_space |-> FALSE, leading_break |-> FALSE,
                 trailing_space |-> FALSE, trailing_break |-> FALSE,
                 break_space |-> FALSE, space_break |-> FALSE,
                 preceded_by_whitespace |-> TRUE,
                 previous_space |-> FALSE, previous_break |-> FALSE])
        edge == s.leading_space \/ s.leading_break \/ s.trailing_space \/ s.trailing_break
        special == s.space_break \/ s.special_characters
    IN  [value |-> value,
         multiline |-> s.line_breaks,
         flow_plain_allowed |->
            ~(edge \/ s.break_space \/ special \/ s.line_breaks \/ s.flow_indicators),
         block_plain_allowed |->
            ~(edge \/ s.break_space \/ special \/ s.line_breaks \/ s.block_indicators),
         single_quoted_allowed |-> ~(s.break_space \/ special),
         block_allowed |-> ~(s.trailing_space \/ special),
         style |-> "Any"]

\* The tag of a node event is analysed when the event has one and it has to be
\* written.
analyze_node_tag(e, ev, implicit, tag_directives) ==
    IF is_some(ev.tag) /\ (e.canonical \/ ~implicit)
    THEN LET tag == analyze_tag(unwrap(ev.tag), tag_directives)
         IN  IF tag.result = "Ok"
             THEN [result |-> "Ok", problem |-> NULL,
                   tag |-> Some([handle |-> tag.handle, suffix |-> tag.suffix])]
             ELSE [result |-> "Err", problem |-> tag.problem, tag |-> None]
    ELSE [result |-> "Ok", problem |-> NULL, tag |-> None]

analyze_event(e, ev, tag_directives) ==
    LET default == [result |-> "Ok", problem |-> NULL,
                    anchor |-> None, tag |-> None, scalar |-> None]
        failed(problem) == [default EXCEPT !.result = "Err", !.problem = problem]
        anchor == analyze_anchor(unwrap(ev.anchor), ev.type = "Alias")
        anchored == [default EXCEPT
                        !.anchor = Some([anchor |-> anchor.anchor, alias |-> anchor.alias])]
        implicit == IF ev.type = "Scalar"
                    THEN ev.plain_implicit \/ ev.quoted_implicit
                    ELSE ev.implicit
        tag == analyze_node_tag(e, ev, implicit, tag_directives)
    IN  IF ev.type = "Alias"
        THEN IF anchor.result = "Ok" THEN anchored ELSE failed(anchor.problem)
        ELSE IF ev.type \in {"Scalar", "SequenceStart", "MappingStart"}
        THEN IF is_some(ev.anchor) /\ anchor.result # "Ok" THEN failed(anchor.problem)
             ELSE IF tag.result # "Ok" THEN failed(tag.problem)
             ELSE [(IF is_some(ev.anchor) THEN anchored ELSE default) EXCEPT
                      !.tag = tag.tag,
                      !.scalar = IF ev.type = "Scalar"
                                 THEN Some(analyze_scalar(e, ev.value))
                                 ELSE None]
        ELSE default

(***************************************************************************)
(* The writer: indentation, indicators, anchors, tags and scalars.         *)
(***************************************************************************)
write_bom(e) ==
    Try(flush_if_needed(e), LAMBDA f : [f EXCEPT !.buffer = Append(@, "U+FEFF")])

\* The loop of write_indent: spaces up to the column indent.
RECURSIVE write_indent_loop(_, _)
write_indent_loop(e, indent) ==
    IF e.result # "Ok" \/ e.column >= indent THEN e
    ELSE write_indent_loop(put(e, " "), indent)

write_indent(e) ==
    LET indent == IF e.indent >= 0 THEN e.indent ELSE 0
        broken == IF \/ ~e.indention
                     \/ e.column > indent
                     \/ e.column = indent /\ ~e.whitespace
                  THEN put_break(e) ELSE e
    IN  Try(write_indent_loop(broken, indent),
            LAMBDA f : [f EXCEPT !.whitespace = TRUE, !.indention = TRUE])

write_indicator(e, indicator, need_whitespace, is_whitespace, is_indention) ==
    LET spaced == IF need_whitespace /\ ~e.whitespace THEN put(e, " ") ELSE e
    IN  Try(Try(spaced, LAMBDA f : write_str(f, indicator)),
            LAMBDA f : [f EXCEPT !.whitespace = is_whitespace,
                                 !.indention = @ /\ is_indention])

write_anchor(e, value) ==
    Try(write_str(e, value),
        LAMBDA f : [f EXCEPT !.whitespace = FALSE, !.indention = FALSE])

write_tag_handle(e, value) ==
    LET spaced == IF ~e.whitespace THEN put(e, " ") ELSE e
    IN  Try(Try(spaced, LAMBDA f : write_str(f, value)),
            LAMBDA f : [f EXCEPT !.whitespace = FALSE, !.indention = FALSE])

\* The UTF-8 bytes of a character that write_tag_content escapes, each as its
\* two upper-case hexadecimal digits.
utf8_hex(ch) ==
    CASE ch = "!" -> <<<<"2", "1">>>>
      [] ch = " " -> <<<<"2", "0">>>>
      [] ch = "<" -> <<<<"3", "C">>>>
      [] ch = ">" -> <<<<"3", "E">>>>
      [] ch = "U+00E9" -> <<<<"C", "3">>, <<"A", "9">>>>

RECURSIVE put_all(_, _)
put_all(e, string) ==
    IF e.result # "Ok" \/ string = <<>> THEN e
    ELSE put_all(put(e, Head(string)), Tail(string))

RECURSIVE uri_escape(_, _)
uri_escape(e, bytes) ==
    IF e.result # "Ok" \/ bytes = <<>> THEN e
    ELSE uri_escape(put_all(e, <<"%">> \o Head(bytes)), Tail(bytes))

RECURSIVE write_tag_content_loop(_, _)
write_tag_content_loop(e, value) ==
    IF e.result # "Ok" \/ value = <<>> THEN e
    ELSE LET ch == Head(value)
         IN  write_tag_content_loop(
                 IF \/ is_alpha(ch)
                    \/ ch \in {";", "/", "?", ":", "@", "&", "=", "+", "$", ",", "_",
                               ".", "~", "*", "'", "(", ")", "[", "]"}
                 THEN write_char(e, ch)
                 ELSE uri_escape(e, utf8_hex(ch)),
                 Tail(value))

write_tag_content(e, value, need_whitespace) ==
    LET spaced == IF need_whitespace /\ ~e.whitespace THEN put(e, " ") ELSE e
    IN  Try(write_tag_content_loop(spaced, value),
            LAMBDA f : [f EXCEPT !.whitespace = FALSE, !.indention = FALSE])

\* The character of value at index i as an Option: None past the end.
char_at(value, i) == IF i >= 1 /\ i <= Len(value) THEN Some(value[i]) ELSE None

RECURSIVE write_plain_scalar_loop(_, _, _, _, _, _)
write_plain_scalar_loop(e, value, i, allow_breaks, spaces, breaks) ==
    IF e.result # "Ok" \/ i > Len(value) THEN e
    ELSE
    LET ch == value[i]
        next == char_at(value, i + 1)
    IN  IF is_space(Some(ch))
        THEN write_plain_scalar_loop(
                 IF allow_breaks /\ ~spaces /\ e.column > e.best_width /\ ~is_space(next)
                 THEN write_indent(e) ELSE write_char(e, ch),
                 value, i + 1, allow_breaks, TRUE, breaks)
        ELSE IF is_break(Some(ch))
        THEN write_plain_scalar_loop(
                 Try(Try(IF ~breaks /\ ch = "\n" THEN put_break(e) ELSE e,
                         LAMBDA f : write_break(f, ch)),
                     LAMBDA f : [f EXCEPT !.indention = TRUE]),
                 value, i + 1, allow_breaks, spaces, TRUE)
        ELSE write_plain_scalar_loop(
                 Try(Try(IF breaks THEN write_indent(e) ELSE e,
                         LAMBDA f : write_char(f, ch)),
                     LAMBDA f : [f EXCEPT !.indention = FALSE]),
                 value, i + 1, allow_breaks, FALSE, FALSE)

write_plain_scalar(e, value, allow_breaks) ==
    LET spaced == IF ~e.whitespace /\ (value # <<>> \/ e.flow_level # 0)
                  THEN put(e, " ") ELSE e
    IN  Try(write_plain_scalar_loop(spaced, value, 1, allow_breaks, FALSE, FALSE),
            LAMBDA f : [f EXCEPT !.whitespace = FALSE, !.indention = FALSE])

\* The loop of write_single_quoted_scalar; the result carries the loop's breaks
\* flag, which the function reads after the loop.
RECURSIVE write_single_quoted_scalar_loop(_, _, _, _, _, _)
write_single_quoted_scalar_loop(e, value, i, allow_breaks, spaces, breaks) ==
    IF e.result # "Ok" \/ i > Len(value) THEN [e |-> e, breaks |-> breaks]
    ELSE
    LET ch == value[i]
        next == char_at(value, i + 1)
        is_first == (i = 1)
        is_last == (next = None)
    IN  IF is_space(Some(ch))
        THEN write_single_quoted_scalar_loop(
                 IF /\ allow_breaks /\ ~spaces /\ e.column > e.best_width
                    /\ ~is_first /\ ~is_last /\ ~is_space(next)
                 THEN write_indent(e) ELSE write_char(e, ch),
                 value, i + 1, allow_breaks, TRUE, breaks)
        ELSE IF is_break(Some(ch))
        THEN write_single_quoted_scalar_loop(
                 Try(Try(IF ~breaks /\ ch = "\n" THEN put_break(e) ELSE e,
                         LAMBDA f : write_break(f, ch)),
                     LAMBDA f : [f EXCEPT !.indention = TRUE]),
                 value, i + 1, allow_breaks, spaces, TRUE)
        ELSE write_single_quoted_scalar_loop(
                 Try(Try(Try(IF breaks THEN write_indent(e) ELSE e,
                             LAMBDA f : IF ch = "'" THEN put(f, "'") ELSE f),
                         LAMBDA f : write_char(f, ch)),
                     LAMBDA f : [f EXCEPT !.indention = FALSE]),
                 value, i + 1, allow_breaks, FALSE, FALSE)

write_single_quoted_scalar(e, value, allow_breaks) ==
    LET opened == write_indicator(e, <<"'">>, TRUE, FALSE, FALSE)
        loop == write_single_quoted_scalar_loop(opened, value, 1, allow_breaks,
                                                FALSE, FALSE)
    IN  Try(Try(Try(loop.e, LAMBDA f : IF loop.breaks THEN write_indent(f) ELSE f),
                LAMBDA f : write_indicator(f, <<"'">>, FALSE, FALSE, FALSE)),
            LAMBDA f : [f EXCEPT !.whitespace = FALSE, !.indention = FALSE])

\* The characters write_double_quoted_scalar puts after the backslash.
escape_of(ch) ==
    CASE ch = "\t" -> <<"t">>
      [] ch = "\n" -> <<"n">>
      [] ch = "\f" -> <<"f">>
      [] ch = "\r" -> <<"r">>
      [] ch = "\"" -> <<"\"">>
      [] ch = "\\" -> <<"\\">>
      [] ch = "U+00E9" -> <<"x", "E", "9">>
      [] ch = "U+FEFF" -> <<"u", "F", "E", "F", "F">>

RECURSIVE write_double_quoted_scalar_loop(_, _, _, _, _)
write_double_quoted_scalar_loop(e, value, i, allow_breaks, spaces) ==
    IF e.result # "Ok" \/ i > Len(value) THEN e
    ELSE
    LET ch == value[i]
        next == char_at(value, i + 1)
        first == (i = 1)
    IN  IF \/ ~is_printable(ch)
           \/ ~e.unicode /\ ~is_ascii(ch)
           \/ is_bom(ch)
           \/ is_break(Some(ch))
           \/ ch = "\""
           \/ ch = "\\"
        THEN write_double_quoted_scalar_loop(
                 put_all(e, <<"\\">> \o escape_of(ch)),
                 value, i + 1, allow_breaks, FALSE)
        ELSE IF is_space(Some(ch))
        THEN write_double_quoted_scalar_loop(
                 IF /\ allow_breaks /\ ~spaces /\ e.column > e.best_width
                    /\ ~first /\ next # None
                 THEN Try(write_indent(e),
                          LAMBDA f : IF is_space(next) THEN put(f, "\\") ELSE f)
                 ELSE write_char(e, ch),
                 value, i + 1, allow_breaks, TRUE)
        ELSE write_double_quoted_scalar_loop(
                 write_char(e, ch), value, i + 1, allow_breaks, FALSE)

write_double_quoted_scalar(e, value, allow_breaks) ==
    LET opened == write_indicator(e, <<"\"">>, TRUE, FALSE, FALSE)
        loop == write_double_quoted_scalar_loop(opened, value, 1, allow_breaks, FALSE)
    IN  Try(Try(loop, LAMBDA f : write_indicator(f, <<"\"">>, FALSE, FALSE, FALSE)),
            LAMBDA f : [f EXCEPT !.whitespace = FALSE, !.indention = FALSE])

\* char::from_digit(n, 10) for a digit n.
from_digit(n) == <<"0", "1", "2", "3", "4", "5", "6", "7", "8", "9">>[n + 1]

\* A block scalar header with the indentation hint alone.
write_block_scalar_hints_no_chomp(e, string) ==
    LET first == char_at(string, 1)
    IN  IF is_space(first) \/ is_break(first)
        THEN IF e.best_indent \in 0..9
             THEN write_indicator(e, <<from_digit(e.best_indent)>>, FALSE, FALSE, FALSE)
             ELSE Panic(e, "self.best_indent out of range")
        ELSE e

write_block_scalar_hints(e, string) ==
    LET first == char_at(string, 1)
        hinted == IF is_space(first) \/ is_break(first)
                  THEN IF e.best_indent \in 0..9
                       THEN write_indicator(e, <<from_digit(e.best_indent)>>,
                                            FALSE, FALSE, FALSE)
                       ELSE Panic(e, "self.best_indent out of range")
                  ELSE e
        ch == char_at(string, Len(string))
        next == char_at(string, Len(string) - 1)
        chomp_hint == IF string = <<>> THEN Some("-")
                      ELSE IF ~is_break(ch) THEN Some("-")
                      ELSE IF is_breakz(next) THEN Some("+")
                      ELSE None
        open_ended == IF string # <<>> /\ is_break(ch) /\ is_breakz(next) THEN 2 ELSE 0
    IN  Try(hinted,
            LAMBDA f : IF is_some(chomp_hint)
                       THEN write_indicator([f EXCEPT !.open_ended = open_ended],
                                            <<unwrap(chomp_hint)>>, FALSE, FALSE, FALSE)
                       ELSE [f EXCEPT !.open_ended = open_ended])

RECURSIVE write_literal_scalar_loop(_, _, _)
write_literal_scalar_loop(e, value, breaks) ==
    IF e.result # "Ok" \/ value = <<>> THEN e
    ELSE
    LET ch == Head(value)
    IN  IF is_break(Some(ch))
        THEN write_literal_scalar_loop(
                 Try(write_break(e, ch), LAMBDA f : [f EXCEPT !.indention = TRUE]),
                 Tail(value), TRUE)
        ELSE write_literal_scalar_loop(
                 Try(Try(IF breaks THEN write_indent(e) ELSE e,
                         LAMBDA f : write_char(f, ch)),
                     LAMBDA f : [f EXCEPT !.indention = FALSE]),
                 Tail(value), FALSE)

write_literal_scalar(e, value) ==
    LET headed ==
            Try(Try(Try(write_indicator(e, <<"|">>, TRUE, FALSE, FALSE),
                        LAMBDA f : write_block_scalar_hints(f, value)),
                    LAMBDA f : put_break(f)),
                LAMBDA f : [f EXCEPT !.indention = TRUE, !.whitespace = TRUE])
    IN  write_literal_scalar_loop(headed, value, TRUE)

\* The index of the first character after index i that is not a break, or
\* the length plus one: where the iterator skip_breaks stops.
RECURSIVE skip_breaks(_, _)
skip_breaks(value, i) ==
    IF i + 1 <= Len(value) /\ is_break(Some(value[i + 1]))
    THEN skip_breaks(value, i + 1)
    ELSE i + 1

RECURSIVE write_folded_scalar_loop(_, _, _, _, _)
write_folded_scalar_loop(e, value, i, breaks, leading_spaces) ==
    IF e.result # "Ok" \/ i > Len(value) THEN e
    ELSE
    LET ch == value[i]
        next == char_at(value, i + 1)
    IN  IF is_break(Some(ch))
        THEN write_folded_scalar_loop(
                 Try(Try(IF /\ ~breaks /\ ~leading_spaces /\ ch = "\n"
                            /\ ~is_blankz(char_at(value, skip_breaks(value, i) + 1))
                         THEN put_break(e) ELSE e,
                         LAMBDA f : write_break(f, ch)),
                     LAMBDA f : [f EXCEPT !.indention = TRUE]),
                 value, i + 1, TRUE, leading_spaces)
        ELSE write_folded_scalar_loop(
                 Try(Try(IF breaks THEN write_indent(e) ELSE e,
                         LAMBDA f : IF /\ ~breaks /\ is_space(Some(ch)) /\ ~is_space(next)
                                       /\ f.column > f.best_width
                                    THEN write_indent(f) ELSE write_char(f, ch)),
                     LAMBDA f : [f EXCEPT !.indention = FALSE]),
                 value, i + 1, FALSE,
                 IF breaks THEN is_blank(Some(ch)) ELSE leading_spaces)

write_folded_scalar(e, value) ==
    LET headed ==
            Try(Try(Try(write_indicator(e, <<">">>, TRUE, FALSE, FALSE),
                        LAMBDA f : write_block_scalar_hints(f, value)),
                    LAMBDA f : put_break(f)),
                LAMBDA f : [f EXCEPT !.indention = TRUE, !.whitespace = TRUE])
    IN  write_folded_scalar_loop(headed, value, 1, TRUE, TRUE)

(***************************************************************************)
(* The state machine of the emitter.                                       *)
(***************************************************************************)
\* The nesting level after the first k events of the queue.
RECURSIVE level_after(_, _)
level_after(events, k) ==
    IF k = 0 THEN 0
    ELSE level_after(events, k - 1)
         + (IF events[k].type \in {"StreamStart", "DocumentStart",
                                   "SequenceStart", "MappingStart"} THEN 1
            ELSE IF events[k].type \in {"StreamEnd", "DocumentEnd",
                                        "SequenceEnd", "MappingEnd"} THEN -1
            ELSE 0)

\* A look-ahead one event shorter for the collections.
accummulate_short(first) ==
    CASE first.type = "DocumentStart" -> 1
      [] first.type = "SequenceStart" -> 1
      [] first.type = "MappingStart" -> 2
      [] OTHER -> 0

\* let accummulate = match &first.data: the events wanted behind the head.
accummulate(first) ==
    CASE first.type = "DocumentStart" -> 1
      [] first.type = "SequenceStart" -> 2
      [] first.type = "MappingStart" -> 3
      [] OTHER -> 0

\* needs_mode_events: the event to process, popped from the queue, or None
\* while the head of the queue waits for its look-ahead.
needs_mode_events(e) ==
    IF e.events = <<>> THEN [e |-> e, event |-> None]
    ELSE
    LET first == Head(e.events)
        popped == [e |-> [e EXCEPT !.events = Tail(@)], event |-> Some(first)]
    IN  IF first.type \notin {"DocumentStart", "SequenceStart", "MappingStart"}
        THEN popped
        ELSE IF Len(e.events) > accummulate(first)
        THEN popped
        ELSE IF \E k \in 1..Len(e.events) : level_after(e.events, k) = 0
        THEN popped
        ELSE [e |-> e, event |-> None]

append_tag_directive(e, value, allow_duplicates) ==
    IF \E i \in 1..Len(e.tag_directives) : e.tag_directives[i].handle = value.handle
    THEN IF allow_duplicates THEN e ELSE Err(e, "duplicate %TAG directive")
    ELSE [e EXCEPT !.tag_directives = Append(@, value)]

\* Gives every flow context the indent best_indent and every other block
\* context best_indent more than its parent.
increase_indent_flat(e, flow, indentless) ==
    LET pushed == [e EXCEPT !.indents = Append(@, e.indent)]
    IN  IF flow THEN [pushed EXCEPT !.indent = e.best_indent]
        ELSE IF e.indent < 0 THEN [pushed EXCEPT !.indent = 0]
        ELSE [pushed EXCEPT !.indent = @ + e.best_indent]

increase_indent(e, flow, indentless) ==
    LET pushed == [e EXCEPT !.indents = Append(@, e.indent)]
    IN  IF e.indent < 0
        THEN [pushed EXCEPT !.indent = IF flow THEN e.best_indent ELSE 0]
        ELSE IF ~indentless
        THEN [pushed EXCEPT !.indent = @ + e.best_indent]
        ELSE IF /\ e.best_sequence_indent > 0
                /\ e.state \in {"BlockSequenceFirstItem", "BlockSequenceItem",
                                "FlowSequenceFirstItem", "FlowSequenceItem"}
        THEN [pushed EXCEPT !.indent = @ + e.best_sequence_indent]
        ELSE pushed

\* self.indent = self.indents.pop().unwrap()
pop_indent(e) ==
    IF e.indents = <<>>
    THEN Panic(e, "called Option::unwrap() on a None value")
    ELSE [e EXCEPT !.indent = Top(e.indents), !.indents = Pop(@)]

\* self.state = self.states.pop().unwrap()
pop_state(e) ==
    IF e.states = <<>>
    THEN Panic(e, "called Option::unwrap() on a None value")
    ELSE [e EXCEPT !.state = Top(e.states), !.states = Pop(@)]

emit_stream_start(e, ev) ==
    IF ev.type = "StreamStart"
    THEN
    LET encoding == IF e.encoding # "Any" THEN e.encoding
                    ELSE IF ev.encoding # "Any" THEN ev.encoding
                    ELSE "Utf8"
        best_indent == IF e.best_indent < 2 \/ e.best_indent > 9 THEN 2 ELSE e.best_indent
        best_width == IF e.best_width >= 0 /\ e.best_width <= best_indent * 2 THEN 80
                      ELSE IF e.best_width < 0 THEN I32_MAX
                      ELSE e.best_width
        started == [e EXCEPT !.open_ended = 0, !.encoding = encoding,
                       !.best_indent = best_indent, !.best_width = best_width,
                       !.line_break = IF @ = "Any" THEN "Ln" ELSE @,
                       !.indent = -1, !.line = 0, !.column = 0,
                       !.whitespace = TRUE, !.indention = TRUE]
    IN  Try(IF encoding # "Utf8" THEN write_bom(started) ELSE started,
            LAMBDA f : [f EXCEPT !.state = "FirstDocumentStart"])
    ELSE Err([e EXCEPT !.open_ended = 0], "expected STREAM-START")

default_tag_directives ==
    <<[handle |-> <<"!">>, prefix |-> <<"!">>],
      [handle |-> <<"!", "!">>,
       prefix |-> <<"t", "a", "g", ":", "y", "a", "m", "l", ".", "o", "r", "g",
                    ",", "2", "0", "0", "2", ":">>]>>

\* The loops of emit_document_start over the tag directives: the directives
\* of the event are analysed and appended, the default ones appended if new.
RECURSIVE append_tag_directives(_, _, _)
append_tag_directives(e, tag_directives, default) ==
    IF e.result # "Ok" \/ tag_directives = <<>> THEN e
    ELSE LET tag_directive == Head(tag_directives)
             analysis == analyze_tag_directive(tag_directive)
         IN  append_tag_directives(
                 IF ~default /\ analysis.result # "Ok"
                 THEN Err(e, analysis.problem)
                 ELSE append_tag_directive(e, tag_directive, default),
                 Tail(tag_directives), default)

RECURSIVE write_tag_directives(_, _)
write_tag_directives(e, tag_directives) ==
    IF e.result # "Ok" \/ tag_directives = <<>> THEN e
    ELSE LET tag_directive == Head(tag_directives)
         IN  write_tag_directives(
                 Try(Try(Try(write_indicator(e, <<"%", "T", "A", "G">>, TRUE, FALSE, FALSE),
                             LAMBDA f : write_tag_handle(f, tag_directive.handle)),
                         LAMBDA f : write_tag_content(f, tag_directive.prefix, TRUE)),
                     LAMBDA f : write_indent(f)),
                 Tail(tag_directives))

check_empty_document == FALSE

emit_document_start(e, ev, first) ==
    IF ev.type = "DocumentStart"
    THEN
    LET version == ev.version_directive
        directives == is_some(version) \/ ev.tag_directives # <<>>
        implicit == /\ ev.implicit /\ first /\ ~e.canonical
                    /\ ~directives /\ ~check_empty_document
        checked == IF is_some(version)
                   THEN LET analysis == analyze_version_directive(unwrap(version))
                        IN  IF analysis.result = "Ok" THEN e
                            ELSE Err(e, analysis.problem)
                   ELSE e
        appended == Try(Try(checked,
                            LAMBDA f : append_tag_directives(f, ev.tag_directives, FALSE)),
                        LAMBDA f : append_tag_directives(f, default_tag_directives, TRUE))
        closed == Try(appended,
                      LAMBDA f : IF directives /\ f.open_ended # 0
                                 THEN Try(write_indicator(f, <<".", ".", ".">>,
                                                          TRUE, FALSE, FALSE),
                                          LAMBDA g : write_indent(g))
                                 ELSE f)
        versioned ==
            Try(closed,
                LAMBDA f :
                    IF is_some(version)
                    THEN Try(Try(write_indicator([f EXCEPT !.open_ended = 0],
                                                 <<"%", "Y", "A", "M", "L">>,
                                                 TRUE, FALSE, FALSE),
                                 LAMBDA g : write_indicator(g,
                                     IF unwrap(version).minor = 1
                                     THEN <<"1", ".", "1">> ELSE <<"1", ".", "2">>,
                                     TRUE, FALSE, FALSE)),
                             LAMBDA g : write_indent(g))
                    ELSE [f EXCEPT !.open_ended = 0])
        tagged == Try(versioned, LAMBDA f : write_tag_directives(f, ev.tag_directives))
        marked == Try(tagged,
                      LAMBDA f : IF ~implicit
                                 THEN Try(Try(write_indent(f),
                                              LAMBDA g : write_indicator(g,
                                                  <<"-", "-", "-">>, TRUE, FALSE, FALSE)),
                                          LAMBDA g : IF g.canonical THEN write_indent(g)
                                                     ELSE g)
                                 ELSE f)
    IN  Try(marked, LAMBDA f : [f EXCEPT !.state = "DocumentContent", !.open_ended = 0])
    ELSE IF ev.type = "StreamEnd"
    THEN
    LET closed == IF e.open_ended = 2
                  THEN Try(write_indicator(e, <<".", ".", ".">>, TRUE, FALSE, FALSE),
                           LAMBDA f : write_indent([f EXCEPT !.open_ended = 0]))
                  ELSE e
    IN  Try(Try(closed, LAMBDA f : flush(f)), LAMBDA f : [f EXCEPT !.state = "End"])
    ELSE Err(e, "expected DOCUMENT-START or STREAM-END")

\* A document always closed with the `...` line.
emit_document_end_explicit(e, ev) ==
    IF ev.type = "DocumentEnd"
    THEN
    LET ended ==
            Try(write_indent(e),
                LAMBDA f : Try(write_indicator(f, <<".", ".", ".">>,
                                               TRUE, FALSE, FALSE),
                               LAMBDA g : write_indent([g EXCEPT !.open_ended = 0])))
    IN  Try(Try(ended, LAMBDA f : flush(f)),
            LAMBDA f : [f EXCEPT !.state = "DocumentStart", !.tag_directives = <<>>])
    ELSE Err(e, "expected DOCUMENT-END")

emit_document_end(e, ev) ==
    IF ev.type = "DocumentEnd"
    THEN
    LET ended ==
            Try(write_indent(e),
                LAMBDA f : IF ~ev.implicit
                           THEN Try(write_indicator(f, <<".", ".", ".">>,
                                                    TRUE, FALSE, FALSE),
                                    LAMBDA g : write_indent([g EXCEPT !.open_ended = 0]))
                           ELSE IF f.open_ended = 0
                           THEN [f EXCEPT !.open_ended = 1]
                           ELSE f)
    IN  Try(Try(ended, LAMBDA f : flush(f)),
            LAMBDA f : [f EXCEPT !.state = "DocumentStart", !.tag_directives = <<>>])
    ELSE Err(e, "expected DOCUMENT-END")

check_empty_sequence(e, ev) ==
    /\ e.events # <<>>
    /\ ev.type = "SequenceStart"
    /\ e.events[1].type = "SequenceEnd"

check_empty_mapping(e, ev) ==
    /\ e.events # <<>>
    /\ ev.type = "MappingStart"
    /\ e.events[1].type = "MappingEnd"

\* A key judged simple on the length of its value alone.
check_simple_key_value_only(e, ev, analysis) ==
    CASE ev.type = "Alias" -> TRUE
      [] ev.type = "Scalar" ->
            /\ ~unwrap(analysis.scalar).multiline
            /\ Len(unwrap(analysis.scalar).value) <= 128
      [] ev.type = "SequenceStart" -> check_empty_sequence(e, ev)
      [] ev.type = "MappingStart" -> check_empty_mapping(e, ev)
      [] OTHER -> FALSE

check_simple_key(e, ev, analysis) ==
    LET anchor_length == IF is_some(analysis.anchor)
                         THEN Len(unwrap(analysis.anchor).anchor) ELSE 0
        tag_length == IF is_some(analysis.tag)
                      THEN Len(unwrap(analysis.tag).handle)
                           + Len(unwrap(analysis.tag).suffix)
                      ELSE 0
    IN  CASE ev.type = "Alias" -> anchor_length <= 128
          [] ev.type = "Scalar" ->
                /\ ~unwrap(analysis.scalar).multiline
                /\ anchor_length + tag_length
                   + Len(unwrap(analysis.scalar).value) <= 128
          [] ev.type = "SequenceStart" ->
                check_empty_sequence(e, ev) /\ anchor_length + tag_length <= 128
          [] ev.type = "MappingStart" ->
                check_empty_mapping(e, ev) /\ anchor_length + tag_length <= 128
          [] OTHER -> FALSE

\* The style the event asks for, never forced to double-quoted.
select_scalar_style_as_requested(e, ev, scalar_analysis, tag_analysis) ==
    LET no_tag == (tag_analysis = None)
        forced == IF ev.style = "Any" THEN "Plain" ELSE ev.style
        plain == IF forced = "Plain"
                    /\ \/ e.flow_level # 0 /\ ~scalar_analysis.flow_plain_allowed
                       \/ e.flow_level = 0 /\ ~scalar_analysis.block_plain_allowed
                       \/ /\ scalar_analysis.value = <<>>
                          /\ (e.flow_level # 0 \/ e.simple_key_context)
                       \/ no_tag /\ ~ev.plain_implicit
                 THEN "SingleQuoted" ELSE forced
        single == IF plain = "SingleQuoted" /\ ~scalar_analysis.single_quoted_allowed
                  THEN "DoubleQuoted" ELSE plain
        style == IF /\ single \in {"Literal", "Folded"}
                    /\ \/ ~scalar_analysis.block_allowed
                       \/ e.flow_level # 0
                       \/ e.simple_key_context
                 THEN "DoubleQuoted" ELSE single
    IN  IF no_tag /\ ~ev.plain_implicit /\ ~ev.quoted_implicit
        THEN [result |-> "Err",
              problem |-> "neither tag nor implicit flags are specified",
              style |-> "Any", tag |-> tag_analysis]
        ELSE [result |-> "Ok", problem |-> NULL, style |-> style,
              tag |-> IF no_tag /\ ~ev.quoted_implicit /\ style # "Plain"
                      THEN Some([handle |-> <<"!">>, suffix |-> <<>>])
                      ELSE tag_analysis]

\* Plain style kept for a scalar that is not implicitly plain.
select_scalar_style_not_implicit(e, ev, scalar_analysis, tag_analysis) ==
    LET no_tag == (tag_analysis = None)
        requested == IF ev.style = "Any" THEN "Plain" ELSE ev.style
        forced == IF e.canonical THEN "DoubleQuoted"
                  ELSE IF e.simple_key_context /\ scalar_analysis.multiline
                  THEN "DoubleQuoted"
                  ELSE requested
        plain == IF forced = "Plain"
                    /\ \/ e.flow_level # 0 /\ ~scalar_analysis.flow_plain_allowed
                       \/ e.flow_level = 0 /\ ~scalar_analysis.block_plain_allowed
                       \/ /\ scalar_analysis.value = <<>>
                          /\ (e.flow_level # 0 \/ e.simple_key_context)
                 THEN "SingleQuoted" ELSE forced
        single == IF plain = "SingleQuoted" /\ ~scalar_analysis.single_quoted_allowed
                  THEN "DoubleQuoted" ELSE plain
        style == IF /\ single \in {"Literal", "Folded"}
                    /\ \/ ~scalar_analysis.block_allowed
                       \/ e.flow_level # 0
                       \/ e.simple_key_context
                 THEN "DoubleQuoted" ELSE single
    IN  IF no_tag /\ ~ev.plain_implicit /\ ~ev.quoted_implicit
        THEN [result |-> "Err",
              problem |-> "neither tag nor implicit flags are specified",
              style |-> "Any", tag |-> tag_analysis]
        ELSE [result |-> "Ok", problem |-> NULL, style |-> style,
              tag |-> IF no_tag /\ ~ev.quoted_implicit /\ style # "Plain"
                      THEN Some([handle |-> <<"!">>, suffix |-> <<>>])
                      ELSE tag_analysis]

\* select_scalar_style: the Result, the style selected and the tag analysis,
\* which becomes the non-specific tag when a tag has to be written.
select_scalar_style(e, ev, scalar_analysis, tag_analysis) ==
    LET no_tag == (tag_analysis = None)
        requested == IF ev.style = "Any" THEN "Plain" ELSE ev.style
        forced == IF e.canonical THEN "DoubleQuoted"
                  ELSE IF e.simple_key_context /\ scalar_analysis.multiline
                  THEN "DoubleQuoted"
                  ELSE requested
        plain == IF forced = "Plain"
                    /\ \/ e.flow_level # 0 /\ ~scalar_analysis.flow_plain_allowed
                       \/ e.flow_level = 0 /\ ~scalar_analysis.block_plain_allowed
                       \/ /\ scalar_analysis.value = <<>>
                          /\ (e.flow_level # 0 \/ e.simple_key_context)
                       \/ no_tag /\ ~ev.plain_implicit
                 THEN "SingleQuoted" ELSE forced
        single == IF plain = "SingleQuoted" /\ ~scalar_analysis.single_quoted_allowed
                  THEN "DoubleQuoted" ELSE plain
        style == IF /\ single \in {"Literal", "Folded"}
                    /\ \/ ~scalar_analysis.block_allowed
                       \/ e.flow_level # 0
                       \/ e.simple_key_context
                 THEN "DoubleQuoted" ELSE single
    IN  IF no_tag /\ ~ev.plain_implicit /\ ~ev.quoted_implicit
        THEN [result |-> "Err",
              problem |-> "neither tag nor implicit flags are specified",
              style |-> "Any", tag |-> tag_analysis]
        ELSE [result |-> "Ok", problem |-> NULL, style |-> style,
              tag |-> IF no_tag /\ ~ev.quoted_implicit /\ style # "Plain"
                      THEN Some([handle |-> <<"!">>, suffix |-> <<>>])
                      ELSE tag_analysis]

process_anchor(e, analysis) ==
    IF analysis = None THEN e
    ELSE Try(write_indicator(e, IF unwrap(analysis).alias THEN <<"*">> ELSE <<"&">>,
                             TRUE, FALSE, FALSE),
             LAMBDA f : write_anchor(f, unwrap(analysis).anchor))

\* Writes no tag at all.
process_tag_silent(e, analysis) == e

process_tag(e, analysis) ==
    IF analysis = None THEN e
    ELSE
    LET handle == unwrap(analysis).handle
        suffix == unwrap(analysis).suffix
    IN  IF handle = <<>> /\ suffix = <<>> THEN e
        ELSE IF handle = <<>>
        THEN Try(Try(write_indicator(e, <<"!", "<">>, TRUE, FALSE, FALSE),
                     LAMBDA f : write_tag_content(f, suffix, FALSE)),
                 LAMBDA f : write_indicator(f, <<">">>, FALSE, FALSE, FALSE))
        ELSE Try(write_tag_handle(e, handle),
                 LAMBDA f : IF suffix # <<>> THEN write_tag_content(f, suffix, FALSE)
                            ELSE f)

process_scalar(e, analysis) ==
    CASE analysis.style = "Plain" ->
            write_plain_scalar(e, analysis.value, ~e.simple_key_context)
      [] analysis.style = "SingleQuoted" ->
            write_single_quoted_scalar(e, analysis.value, ~e.simple_key_context)
      [] analysis.style = "DoubleQuoted" ->
            write_double_quoted_scalar(e, analysis.value, ~e.simple_key_context)
      [] analysis.style = "Literal" -> write_literal_scalar(e, analysis.value)
      [] analysis.style = "Folded" -> write_folded_scalar(e, analysis.value)
      [] OTHER -> Panic(e, "No scalar style chosen")

emit_alias(e, ev, analysis) ==
    Try(Try(process_anchor(e, analysis),
            LAMBDA f : IF f.simple_key_context THEN put(f, " ") ELSE f),
        LAMBDA f : pop_state(f))

\* History: the style select_scalar_style chose for the scalar being emitted,
\* with the event, its analysis and the context of the choice.
record_selected(e, ev, style, scalar_analysis, tag_analysis) ==
    [e EXCEPT !.selected =
        Some([style |-> style, requested |-> ev.style,
              plain_implicit |-> ev.plain_implicit,
              quoted_implicit |-> ev.quoted_implicit,
              tag |-> ev.tag, no_tag |-> tag_analysis = None,
              analysis |-> scalar_analysis,
              canonical |-> e.canonical, flow_level |-> e.flow_level,
              simple_key_context |-> e.simple_key_context])]

emit_scalar(e, ev, analysis) ==
    IF analysis.scalar = None THEN Panic(e, "no scalar analysis")
    ELSE
    LET selected == select_scalar_style(e, ev, unwrap(analysis.scalar), analysis.tag)
        scalar == [unwrap(analysis.scalar) EXCEPT !.style = selected.style]
    IN  IF selected.result # "Ok" THEN Err(e, selected.problem)
        ELSE Try(Try(Try(Try(process_anchor(
                                 record_selected(e, ev, selected.style,
                                                 unwrap(analysis.scalar), analysis.tag),
                                 analysis.anchor),
                             LAMBDA f : process_tag(f, selected.tag)),
                         LAMBDA f : process_scalar(increase_indent(f, TRUE, FALSE),
                                                   scalar)),
                     LAMBDA f : pop_indent(f)),
                 LAMBDA f : pop_state(f))

\* A sequence laid out by its own style and emptiness alone.
emit_sequence_start_by_style(e, ev, analysis) ==
    Try(Try(process_anchor(e, analysis.anchor),
            LAMBDA f : process_tag(f, analysis.tag)),
        LAMBDA f : [f EXCEPT !.state =
                       IF \/ f.canonical
                          \/ ev.style = "Flow"
                          \/ check_empty_sequence(f, ev)
                       THEN "FlowSequenceFirstItem"
                       ELSE "BlockSequenceFirstItem"])

emit_sequence_start(e, ev, analysis) ==
    Try(Try(process_anchor(e, analysis.anchor),
            LAMBDA f : process_tag(f, analysis.tag)),
        LAMBDA f : [f EXCEPT !.state =
                       IF \/ f.flow_level # 0
                          \/ f.canonical
                          \/ ev.style = "Flow"
                          \/ check_empty_sequence(f, ev)
                       THEN "FlowSequenceFirstItem"
                       ELSE "BlockSequenceFirstItem"])

emit_mapping_start(e, ev, analysis) ==
    Try(Try(process_anchor(e, analysis.anchor),
            LAMBDA f : process_tag(f, analysis.tag)),
        LAMBDA f : [f EXCEPT !.state =
                       IF \/ f.flow_level # 0
                          \/ f.canonical
                          \/ ev.style = "Flow"
                          \/ check_empty_mapping(f, ev)
                       THEN "FlowMappingFirstKey"
                       ELSE "BlockMappingFirstKey"])

\* An event that is not a node passed over in silence.
emit_node_skips_others(e, ev, root, sequence, mapping, simple_key, analysis) ==
    LET f == [e EXCEPT !.root_context = root, !.sequence_context = sequence,
                       !.mapping_context = mapping, !.simple_key_context = simple_key]
    IN  CASE ev.type = "Alias" -> emit_alias(f, ev, analysis.anchor)
          [] ev.type = "Scalar" -> emit_scalar(f, ev, analysis)
          [] ev.type = "SequenceStart" -> emit_sequence_start(f, ev, analysis)
          [] ev.type = "MappingStart" -> emit_mapping_start(f, ev, analysis)
          [] OTHER -> f

emit_node(e, ev, root, sequence, mapping, simple_key, analysis) ==
    LET f == [e EXCEPT !.root_context = root, !.sequence_context = sequence,
                       !.mapping_context = mapping, !.simple_key_context = simple_key]
    IN  CASE ev.type = "Alias" -> emit_alias(f, ev, analysis.anchor)
          [] ev.type = "Scalar" -> emit_scalar(f, ev, analysis)
          [] ev.type = "SequenceStart" -> emit_sequence_start(f, ev, analysis)
          [] ev.type = "MappingStart" -> emit_mapping_start(f, ev, analysis)
          [] OTHER -> Err(f, "expected SCALAR, SEQUENCE-START, MAPPING-START, or ALIAS")

emit_document_content(e, ev, analysis) ==
    emit_node([e EXCEPT !.states = Append(@, "DocumentEnd")],
              ev, TRUE, FALSE, FALSE, FALSE, analysis)

\* The line is broken before a flow item in canonical mode or past best_width.
flow_indent(e) ==
    IF e.canonical \/ e.column > e.best_width THEN write_indent(e) ELSE e

\* The end of a flow collection: the closing indicator and the return to the
\* state and indentation of the parent.
\* A closing flow indicator written without leaving the indentation level.
flow_collection_end_keeps_indent(e, first, indicator) ==
    Try(Try(IF e.canonical /\ ~first
            THEN Try(write_indicator(e, <<",">>, FALSE, FALSE, FALSE),
                     LAMBDA g : write_indent(g))
            ELSE e,
            LAMBDA f : write_indicator(f, indicator, FALSE, FALSE, FALSE)),
        LAMBDA f : pop_state(f))

flow_collection_end(e, first, indicator) ==
    Try(Try(Try(pop_indent([e EXCEPT !.flow_level = @ - 1]),
                LAMBDA f : IF f.canonical /\ ~first
                           THEN Try(write_indicator(f, <<",">>, FALSE, FALSE, FALSE),
                                    LAMBDA g : write_indent(g))
                           ELSE f),
            LAMBDA f : write_indicator(f, indicator, FALSE, FALSE, FALSE)),
        LAMBDA f : pop_state(f))

emit_flow_sequence_item(e, ev, first, analysis) ==
    LET entered == IF first
                   THEN Try(write_indicator(e, <<"[">>, TRUE, TRUE, FALSE),
                            LAMBDA f : [increase_indent(f, TRUE, FALSE)
                                           EXCEPT !.flow_level = @ + 1])
                   ELSE e
    IN  Try(entered,
            LAMBDA f :
                IF ev.type = "SequenceEnd"
                THEN flow_collection_end(f, first, <<"]">>)
                ELSE Try(Try(IF ~first
                             THEN write_indicator(f, <<",">>, FALSE, FALSE, FALSE)
                             ELSE f,
                             LAMBDA g : flow_indent(g)),
                         LAMBDA g : emit_node(
                             [g EXCEPT !.states = Append(@, "FlowSequenceItem")],
                             ev, FALSE, TRUE, FALSE, FALSE, analysis)))

emit_flow_mapping_key(e, ev, first, analysis) ==
    LET entered == IF first
                   THEN Try(write_indicator(e, <<"{">>, TRUE, TRUE, FALSE),
                            LAMBDA f : [increase_indent(f, TRUE, FALSE)
                                           EXCEPT !.flow_level = @ + 1])
                   ELSE e
    IN  Try(entered,
            LAMBDA f :
                IF ev.type = "MappingEnd"
                THEN IF f.indents = <<>>
                     THEN Panic(f, "self.indents should not be empty")
                     ELSE flow_collection_end(f, first, <<"}">>)
                ELSE Try(Try(IF ~first
                             THEN write_indicator(f, <<",">>, FALSE, FALSE, FALSE)
                             ELSE f,
                             LAMBDA g : flow_indent(g)),
                         LAMBDA g :
                             IF ~g.canonical /\ check_simple_key(g, ev, analysis)
                             THEN emit_node(
                                 [g EXCEPT !.states = Append(@, "FlowMappingSimpleValue")],
                                 ev, FALSE, FALSE, TRUE, TRUE, analysis)
                             ELSE Try(write_indicator(g, <<"?">>, TRUE, FALSE, FALSE),
                                      LAMBDA h : emit_node(
                                          [h EXCEPT !.states =
                                              Append(@, "FlowMappingValue")],
                                          ev, FALSE, FALSE, TRUE, FALSE, analysis))))

emit_flow_mapping_value(e, ev, simple, analysis) ==
    Try(IF simple
        THEN write_indicator(e, <<":">>, FALSE, FALSE, FALSE)
        ELSE Try(flow_indent(e),
                 LAMBDA f : write_indicator(f, <<":">>, TRUE, FALSE, FALSE)),
        LAMBDA f : emit_node([f EXCEPT !.states = Append(@, "FlowMappingKey")],
                             ev, FALSE, FALSE, TRUE, FALSE, analysis))

emit_block_sequence_item(e, ev, first, analysis) ==
    LET f == IF first
             THEN increase_indent(e, FALSE, e.mapping_context /\ ~e.indention)
             ELSE e
    IN  IF ev.type = "SequenceEnd"
        THEN Try(pop_indent(f), LAMBDA g : pop_state(g))
        ELSE Try(Try(write_indent(f),
                     LAMBDA g : write_indicator(g, <<"-">>, TRUE, FALSE, TRUE)),
                 LAMBDA g : emit_node(
                     [g EXCEPT !.states = Append(@, "BlockSequenceItem")],
                     ev, FALSE, TRUE, FALSE, FALSE, analysis))

emit_block_mapping_key(e, ev, first, analysis) ==
    LET f == IF first THEN increase_indent(e, FALSE, FALSE) ELSE e
    IN  IF ev.type = "MappingEnd"
        THEN Try(pop_indent(f), LAMBDA g : pop_state(g))
        ELSE Try(write_indent(f),
                 LAMBDA g :
                     IF check_simple_key(g, ev, analysis)
                     THEN emit_node(
                         [g EXCEPT !.states = Append(@, "BlockMappingSimpleValue")],
                         ev, FALSE, FALSE, TRUE, TRUE, analysis)
                     ELSE Try(write_indicator(g, <<"?">>, TRUE, FALSE, TRUE),
                              LAMBDA h : emit_node(
                                  [h EXCEPT !.states = Append(@, "BlockMappingValue")],
                                  ev, FALSE, FALSE, TRUE, FALSE, analysis)))

emit_block_mapping_value(e, ev, simple, analysis) ==
    Try(IF simple
        THEN write_indicator(e, <<":">>, FALSE, FALSE, FALSE)
        ELSE Try(write_indent(e),
                 LAMBDA f : write_indicator(f, <<":">>, TRUE, FALSE, TRUE)),
        LAMBDA f : emit_node([f EXCEPT !.states = Append(@, "BlockMappingKey")],
                             ev, FALSE, FALSE, TRUE, FALSE, analysis))

state_machine(e, ev, analysis) ==
    CASE e.state = "StreamStart" -> emit_stream_start(e, ev)
      [] e.state = "FirstDocumentStart" -> emit_document_start(e, ev, TRUE)
      [] e.state = "DocumentStart" -> emit_document_start(e, ev, FALSE)
      [] e.state = "DocumentContent" -> emit_document_content(e, ev, analysis)
      [] e.state = "DocumentEnd" -> emit_document_end(e, ev)
      [] e.state = "FlowSequenceFirstItem" -> emit_flow_sequence_item(e, ev, TRUE, analysis)
      [] e.state = "FlowSequenceItem" -> emit_flow_sequence_item(e, ev, FALSE, analysis)
      [] e.state = "FlowMappingFirstKey" -> emit_flow_mapping_key(e, ev, TRUE, analysis)
      [] e.state = "FlowMappingKey" -> emit_flow_mapping_key(e, ev, FALSE, analysis)
      [] e.state = "FlowMappingSimpleValue" -> emit_flow_mapping_value(e, ev, TRUE, analysis)
      [] e.state = "FlowMappingValue" -> emit_flow_mapping_value(e, ev, FALSE, analysis)
      [] e.state = "BlockSequenceFirstItem" ->
            emit_block_sequence_item(e, ev, TRUE, analysis)
      [] e.state = "BlockSequenceItem" -> emit_block_sequence_item(e, ev, FALSE, analysis)
      [] e.state = "BlockMappingFirstKey" -> emit_block_mapping_key(e, ev, TRUE, analysis)
      [] e.state = "BlockMappingKey" -> emit_block_mapping_key(e, ev, FALSE, analysis)
      [] e.state = "BlockMappingSimpleValue" ->
            emit_block_mapping_value(e, ev, TRUE, analysis)
      [] e.state = "BlockMappingValue" -> emit_block_mapping_value(e, ev, FALSE, analysis)
      [] e.state = "End" -> Err(e, "expected nothing after STREAM-END")

\* One turn of the loop of emit: the event is analysed and run through the
\* state machine with the tag directives taken out of the emitter; an Err of
\* either returns at once.
emit_event(e, ev, analysis) ==
    IF analysis.result # "Ok" THEN Err(e, analysis.problem)
    ELSE state_machine(e, ev, analysis)

\* The tag directives taken are put back unless the handler set new ones.
restore_tag_directives(e, tag_directives) ==
    IF e.result = "Ok" /\ e.tag_directives = <<>>
    THEN [e EXCEPT !.tag_directives = tag_directives]
    ELSE e

\* What the emitter has put out: the text given to the writer and the text
\* still in its buffer.
Output(e) == e.write_handler.written \o e.buffer

\* History of one call of emit: for each event the loop ran through the state
\* machine, the queue it was released from (the event at its head), the state
\* it met, the state, flow level and result it left, the style selected for
\* a scalar, the text it added to the output, and the indentation it met
\* (before) and the indentation it left (indent, indents).
record_step(e, after) ==
    [after EXCEPT !.steps = Append(@,
        [queue |-> e.events, state |-> e.state, canonical |-> e.canonical,
         next |-> after.state, flow_level |-> after.flow_level,
         before |-> [indent |-> e.indent, indents |-> e.indents,
                     mapping_context |-> e.mapping_context,
                     indention |-> e.indention],
         indent |-> after.indent, indents |-> after.indents,
         result |-> after.result, selected |-> after.selected,
         text |-> SubSeq(Output(after), Len(Output(e)) + 1, Len(Output(after)))])]

\* The loop of emit over the events needs_mode_events releases.  An Err ends
\* it, after the event was popped and the directives taken.
RECURSIVE emit_loop(_)
emit_loop(e) ==
    LET needed == needs_mode_events(e)
        ev == unwrap(needed.event)
        tag_directives == needed.e.tag_directives
        taken == [needed.e EXCEPT !.tag_directives = <<>>, !.selected = None]
    IN  IF e.result # "Ok" \/ needed.event = None THEN e
        ELSE emit_loop(record_step(e, restore_tag_directives(
                 emit_event(taken, ev, analyze_event(taken, ev, tag_directives)),
                 tag_directives)))

emit(e, ev) == emit_loop([e EXCEPT !.events = Append(@, ev), !.steps = <<>>])

(***************************************************************************)
(* The parser after yaml_parser_new, reading a stream the model does not   *)
(* fix in advance.                                                         *)
(***************************************************************************)
\* An input the scanner may continue with any token of the alphabet named.
FreeInput(alphabet) ==
    [free |-> TRUE, alphabet |-> alphabet, stream |-> <<>>, rest |-> <<>>]

\* An input whose tokens are those of stream, in this order.
ScriptedInput(stream) ==
    [free |-> FALSE, alphabet |-> "none", stream |-> stream, rest |-> stream]

yaml_parser_new(input) ==
    [state |-> "STREAM_START", states |-> <<>>, marks |-> <<>>, tokens |-> <<>>,
     token_available |-> FALSE, tag_directives |-> <<>>,
     error |-> "YAML_NO_ERROR", problem |-> NULL, problem_mark |-> 0,
     context |-> NULL, context_mark |-> 0,
     stream_start_produced |-> FALSE, stream_end_produced |-> FALSE,
     aliases |-> <<>>, input |-> input, skipped |-> <<>>, ub |-> FALSE]

\* *document = zeroed(): a document without nodes.
ZeroedDocument ==
    [nodes |-> <<>>, version_directive |-> <<>>, tag_directives |-> <<>>,
     start_implicit |-> 0, end_implicit |-> 0, start_mark |-> 0, end_mark |-> 0]

\* No scalar value is under analysis.
NotAnalysed == [value |-> <<>>, analysis |-> <<>>]

\* No yaml_document_get_node call has returned yet.
NotGot == [nodes |-> <<>>, index |-> 0, result |-> "None", node |-> <<>>]

\* No yaml_parser_load call has returned yet.
NotLoaded ==
    [document |-> ZeroedDocument, result |-> "None", events |-> <<>>,
     parents |-> <<>>, returned |-> <<>>]

Init ==
    /\ parser = yaml_parser_new(FreeInput("structure"))
    /\ event = NoEvent
    /\ ret = 1
    /\ call = [state |-> "NONE", error |-> "YAML_NO_ERROR", tag_directives |-> <<>>]
    /\ open = <<>>
    /\ balanced = TRUE
    /\ trace = <<>>
    /\ loaded = NotLoaded
    /\ got = NotGot
    /\ analysed = NotAnalysed
    /\ emitter = Emitter_new
    /\ emits = [calls |-> 0, failed |-> FALSE]

\* One call of yaml_parser_parse by the application.
Parse ==
    \E o \in yaml_parser_parse([parser EXCEPT !.skipped = <<>>]) :
        /\ Len(o.p.states) <= MaxDepth
        /\ parser' = o.p
        /\ event' = o.event
        /\ ret' = o.ret
        /\ call' = [state |-> parser.state, error |-> parser.error,
                    tag_directives |-> parser.tag_directives]
        /\ IF o.event.type = "NO_EVENT"
           THEN UNCHANGED <<open, balanced>>
           ELSE /\ open' = Opened(open, o.event.type)
                /\ balanced' = (balanced /\ MayOccur(open, o.event.type))
        /\ trace' = IF parser.input.free \/ Len(trace) >= MaxTrace
                    THEN trace ELSE Append(trace, o.event)
        /\ UNCHANGED <<emitter, emits, loaded, got, analysed>>

Next == Parse

Spec == Init /\ [][Next]_vars

(***************************************************************************)
(* C1.  The events returned by successive calls are well-balanced: every   *)
(* event occurs where the events before it allow it (StreamStart first,    *)
(* a document only in the stream, a node only in a document or collection, *)
(* every end closing the innermost opening of its own kind, nothing after  *)
(* StreamEnd), and when StreamEnd has been returned nothing is left open.  *)
(***************************************************************************)
C1_EventsWellBalanced ==
    /\ balanced
    /\ event.type = "STREAM_END" => open = <<"END">>
    /\ parser.stream_end_produced => open = <<"END">>

\* A stream has been parsed to its end, StreamEnd being the event just returned.
C1_Witness ==
    /\ event.type = "STREAM_END"
    /\ ret = 1
    /\ call.state = "DOCUMENT_START"
    /\ open = <<"END">>

\* A mapping nested in a sequence has just been closed, the sequence is still open.
C1_WitnessNested ==
    /\ event.type = "MAPPING_END"
    /\ open = <<"STREAM", "DOCUMENT", "SEQUENCE">>

\* The parser never pops an empty stack.
NoUndefinedBehaviour == ~parser.ub

(***************************************************************************)
(* C2.  Parser errors are terminal: once parser.error is set, a call of    *)
(* yaml_parser_parse returns failure, produces no event and leaves the     *)
(* state, the state stack, the marks stack and the token queue unchanged.  *)
(***************************************************************************)
C2_ParserErrorsTerminal ==
    [][parser.error # "YAML_NO_ERROR" =>
          /\ ret' = 0
          /\ event'.type = "NO_EVENT"
          /\ parser'.error = parser.error
          /\ parser'.state = parser.state
          /\ parser'.states = parser.states
          /\ parser'.marks = parser.marks
          /\ parser'.tokens = parser.tokens]_vars

(***************************************************************************)
(* The parser reading the tokens of a document's prologue and of its       *)
(* nodes' properties.                                                      *)
(***************************************************************************)
InitProperties ==
    /\ parser = yaml_parser_new(FreeInput("properties"))
    /\ event = NoEvent
    /\ ret = 1
    /\ call = [state |-> "NONE", error |-> "YAML_NO_ERROR", tag_directives |-> <<>>]
    /\ open = <<>>
    /\ balanced = TRUE
    /\ trace = <<>>
    /\ loaded = NotLoaded
    /\ got = NotGot
    /\ analysed = NotAnalysed
    /\ emitter = Emitter_new
    /\ emits = [calls |-> 0, failed |-> FALSE]

SpecProperties == InitProperties /\ [][Next]_vars

(***************************************************************************)
(* What the claims about one call read from the history: the call started  *)
(* without an error in one of the states that process directives, the      *)
(* tokens it consumed, the token it stopped at.                            *)
(***************************************************************************)
DocumentStartCall ==
    /\ call.state \in {"IMPLICIT_DOCUMENT_START", "DOCUMENT_START"}
    /\ call.error = "YAML_NO_ERROR"

IsVersionDirective(t) == t.type = "VERSION_DIRECTIVE"

IsTagDirective(t) == t.type = "TAG_DIRECTIVE"

IsTag(t) == t.type = "TAG"

StoppedAt == IF parser.token_available THEN Head(parser.tokens) ELSE NoToken

ParserErrorIs(problem) ==
    /\ ret = 0
    /\ event.type = "NO_EVENT"
    /\ parser.error = "YAML_PARSER_ERROR"
    /\ parser.problem = problem

(***************************************************************************)
(* C6.  In a call that processes a document's directives, a                *)
(* VERSION-DIRECTIVE token whose major is not 1 or whose minor is neither  *)
(* 1 nor 2 is never accepted: the call stops at it and fails with the      *)
(* parser error "found incompatible YAML document"; a second               *)
(* VERSION-DIRECTIVE token is never accepted either: the call stops at it  *)
(* and fails with "found duplicate %YAML directive".  In both cases the    *)
(* call returns no event.                                                  *)
(***************************************************************************)
C6_VersionDirectives ==
    DocumentStartCall =>
        LET versions == SelectSeq(parser.skipped, IsVersionDirective)
            bad(t) == t.major # 1 \/ t.minor \notin {1, 2}
        IN  /\ Len(versions) <= 1
            /\ \A i \in 1..Len(versions) : ~bad(versions[i])
            /\ IsVersionDirective(StoppedAt) /\ versions # <<>> =>
                   ParserErrorIs("found duplicate %YAML directive")
            /\ IsVersionDirective(StoppedAt) /\ versions = <<>> /\ bad(StoppedAt) =>
                   ParserErrorIs("found incompatible YAML document")
            /\ IsVersionDirective(StoppedAt) => bad(StoppedAt) \/ versions # <<>>

\* The call stopped at a %YAML directive of version 1.3 and failed.
C6_Witness ==
    /\ DocumentStartCall
    /\ StoppedAt = VersionDirectiveToken(1, 3)
    /\ ParserErrorIs("found incompatible YAML document")

\* The call accepted one %YAML directive, stopped at the next and failed.
C6_WitnessDuplicate ==
    /\ DocumentStartCall
    /\ IsVersionDirective(StoppedAt)
    /\ ParserErrorIs("found duplicate %YAML directive")

(***************************************************************************)
(* C7.  The parser's table of tag directives never holds two entries with  *)
(* the same handle.  In a call that processes a document's directives, a   *)
(* TAG-DIRECTIVE token whose handle an earlier one of the document         *)
(* declared is never accepted: the call stops at it and fails with         *)
(* "found duplicate %TAG directive".  When the call returns DocumentStart, *)
(* the table holds the document's directives in their order, followed by   *)
(* the defaults `!` -> `!` and `!!` -> `tag:yaml.org,2002:` whose handle   *)
(* the document did not declare.                                           *)
(***************************************************************************)
C7_TagDirectives ==
    LET table == parser.tag_directives
        tags == SelectSeq(parser.skipped, IsTagDirective)
        user == [i \in 1..Len(tags) |->
                    [handle |-> tags[i].handle, prefix |-> tags[i].prefix]]
        declared == {tags[i].handle : i \in 1..Len(tags)}
        bang == IF "!" \in declared THEN <<>>
                ELSE <<[handle |-> "!", prefix |-> "!"]>>
        bangbang == IF "!!" \in declared THEN <<>>
                    ELSE <<[handle |-> "!!", prefix |-> "tag:yaml.org,2002:"]>>
    IN  /\ \A i, j \in 1..Len(table) : table[i].handle = table[j].handle => i = j
        /\ DocumentStartCall =>
               /\ \A i, j \in 1..Len(tags) : tags[i].handle = tags[j].handle => i = j
               /\ IsTagDirective(StoppedAt) =>
                      /\ StoppedAt.handle \in declared
                      /\ ParserErrorIs("found duplicate %TAG directive")
               /\ event.type = "DOCUMENT_START" => table = user \o bang \o bangbang

\* A document that declares `!` itself has started: the table holds the
\* document's `!` and the default `!!`.
C7_Witness ==
    /\ DocumentStartCall
    /\ event.type = "DOCUMENT_START"
    /\ parser.tag_directives = <<[handle |-> "!", prefix |-> "!my-"],
                                 [handle |-> "!!", prefix |-> "tag:yaml.org,2002:"]>>

\* The call stopped at a second %TAG directive for a handle and failed.
C7_WitnessDuplicate ==
    /\ DocumentStartCall
    /\ IsTagDirective(StoppedAt)
    /\ ParserErrorIs("found duplicate %TAG directive")

(***************************************************************************)
(* C8.  A call that consumes a TAG token and gets the token after the      *)
(* node's properties from the scanner: with an empty handle it returns an  *)
(* event whose tag is the token's suffix; with a handle the table of tag   *)
(* directives declares it returns an event whose tag is the declared       *)
(* prefix followed by the suffix; with any other handle it fails with the  *)
(* parser error "found undefined tag handle" and returns no event.         *)
(***************************************************************************)
C8_TagResolution ==
    LET tags == SelectSeq(parser.skipped, IsTag)
        table == parser.tag_directives
    IN  tags # <<>> /\ parser.error # "YAML_SCANNER_ERROR" =>
            LET tk == tags[1]
                declaring == {i \in 1..Len(table) : table[i].handle = tk.handle}
            IN  IF tk.handle = ""
                THEN ret = 1 /\ event.tag = tk.suffix
                ELSE IF declaring # {}
                THEN /\ ret = 1
                     /\ \A i \in declaring : event.tag = table[i].prefix \o tk.suffix
                ELSE /\ ParserErrorIs("found undefined tag handle")
                     /\ parser.context = "while parsing a node"

\* A node tagged `!e!x` under `%TAG !e! tag:e:` has been returned.
C8_Witness ==
    /\ ret = 1
    /\ SelectSeq(parser.skipped, IsTag) = <<TagToken("!e!", "x")>>
    /\ event.tag = "tag:e:x"

\* A verbatim tag has been returned unchanged.
C8_WitnessVerbatim ==
    /\ ret = 1
    /\ SelectSeq(parser.skipped, IsTag) = <<TagToken("", "tag:v")>>
    /\ event.tag = "tag:v"

\* A node tagged `!e!x` without a directive for `!e!` has been refused.
C8_WitnessUndefined ==
    /\ SelectSeq(parser.skipped, IsTag) = <<TagToken("!e!", "x")>>
    /\ ParserErrorIs("found undefined tag handle")

(***************************************************************************)
(* C9.  A call that consumes the TAG token of a bare `!` (handle `!`,      *)
(* empty suffix) while the default directive `!` -> `!` is in force        *)
(* returns, for a scalar, a Scalar event with plain_implicit = 0 and       *)
(* quoted_implicit = 1, and for a collection, an event with implicit = 0.  *)
(***************************************************************************)
C9_BareTag ==
    LET tags == SelectSeq(parser.skipped, IsTag)
        table == parser.tag_directives
    IN  /\ ret = 1
        /\ tags = <<TagToken("!", "")>>
        /\ \E i \in 1..Len(table) : table[i] = [handle |-> "!", prefix |-> "!"]
        => /\ event.type = "SCALAR" =>
                  event.plain_implicit = 0 /\ event.quoted_implicit = 1
           /\ event.type \in {"SEQUENCE_START", "MAPPING_START"} =>
                  event.implicit = 0

(***************************************************************************)
(* C10.  A call that returns the scalar standing for an absent key, value  *)
(* or entry (the only Scalar event with an empty value, no anchor and no   *)
(* tag: every SCALAR token of the model has a value) returns it with the   *)
(* Plain style, plain_implicit = 1, quoted_implicit = 0 and equal marks,   *)
(* and leaves the token that follows the absent node at the head of the    *)
(* queue, not consumed.                                                    *)
(***************************************************************************)
C10_EmptyScalar ==
    /\ ret = 1
    /\ event.type = "SCALAR"
    /\ event.value = ""
    /\ event.anchor = NULL
    /\ event.tag = NULL
    => /\ event.style = "PLAIN"
       /\ event.plain_implicit = 1
       /\ event.quoted_implicit = 0
       /\ event.start_mark = event.end_mark
       /\ parser.token_available
       /\ parser.tokens # <<>>

(***************************************************************************)
(* The parser reading a token stream fixed in advance: the stream of the   *)
(* block mapping `a: 1` / `b: 2`, or any short stream of block-mapping     *)
(* tokens between STREAM-START and STREAM-END.                             *)
(***************************************************************************)
\* The scanner's marks: the n-th token of a stream spans the positions 2n, 2n+1.
Stamp(stream) ==
    [i \in 1..Len(stream) |->
        [stream[i] EXCEPT !.start_mark = 2 * (i - 1), !.end_mark = 2 * (i - 1) + 1]]

BlockMappingStream ==
    <<Token("STREAM_START"), Token("BLOCK_MAPPING_START"),
      Token("KEY"), ScalarToken("a", "PLAIN"), Token("VALUE"), ScalarToken("1", "PLAIN"),
      Token("KEY"), ScalarToken("b", "PLAIN"), Token("VALUE"), ScalarToken("2", "PLAIN"),
      Token("BLOCK_END"), Token("STREAM_END")>>

ScriptTokens ==
    {Token("BLOCK_MAPPING_START"), Token("KEY"), Token("VALUE"), Token("BLOCK_END"),
     Token("DOCUMENT_START"), ScalarToken("a", "PLAIN")}

Scripts ==
    {BlockMappingStream}
    \cup {<<Token("STREAM_START")>> \o body \o <<Token("STREAM_END")>> :
             body \in UNION {[1..n -> ScriptTokens] : n \in 0..MaxScript}}

InitScript ==
    /\ \E stream \in Scripts : parser = yaml_parser_new(ScriptedInput(Stamp(stream)))
    /\ event = NoEvent
    /\ ret = 1
    /\ call = [state |-> "NONE", error |-> "YAML_NO_ERROR", tag_directives |-> <<>>]
    /\ open = <<>>
    /\ balanced = TRUE
    /\ trace = <<>>
    /\ loaded = NotLoaded
    /\ got = NotGot
    /\ analysed = NotAnalysed
    /\ emitter = Emitter_new
    /\ emits = [calls |-> 0, failed |-> FALSE]

SpecScript == InitScript /\ [][Next]_vars

(***************************************************************************)
(* C5.  On the token stream of `a: 1` / `b: 2` the calls return, one event *)
(* per call: StreamStart, DocumentStart (implicit), MappingStart (block    *)
(* style), the plain Scalars a, 1, b, 2, MappingEnd, DocumentEnd           *)
(* (implicit), StreamEnd, every call succeeding, and no event after that.  *)
(***************************************************************************)
BlockMappingEvents ==
    <<[type |-> "STREAM_START", value |-> NULL, style |-> "ANY", implicit |-> 0],
      [type |-> "DOCUMENT_START", value |-> NULL, style |-> "ANY", implicit |-> 1],
      [type |-> "MAPPING_START", value |-> NULL, style |-> "BLOCK_MAPPING",
       implicit |-> 1],
      [type |-> "SCALAR", value |-> "a", style |-> "PLAIN", implicit |-> 0],
      [type |-> "SCALAR", value |-> "1", style |-> "PLAIN", implicit |-> 0],
      [type |-> "SCALAR", value |-> "b", style |-> "PLAIN", implicit |-> 0],
      [type |-> "SCALAR", value |-> "2", style |-> "PLAIN", implicit |-> 0],
      [type |-> "MAPPING_END", value |-> NULL, style |-> "ANY", implicit |-> 0],
      [type |-> "DOCUMENT_END", value |-> NULL, style |-> "ANY", implicit |-> 1],
      [type |-> "STREAM_END", value |-> NULL, style |-> "ANY", implicit |-> 0]>>

C5_BlockMapping ==
    parser.input.stream = Stamp(BlockMappingStream) =>
        /\ ret = 1
        /\ \A i \in 1..Len(trace) :
               IF i <= Len(BlockMappingEvents)
               THEN [type |-> trace[i].type, value |-> trace[i].value,
                     style |-> trace[i].style, implicit |-> trace[i].implicit]
                        = BlockMappingEvents[i]
               ELSE trace[i] = NoEvent

\* The stream has been parsed to its end and one more call has been made.
C5_Witness ==
    /\ parser.input.stream = Stamp(BlockMappingStream)
    /\ Len(trace) = Len(BlockMappingEvents) + 1
    /\ trace[Len(BlockMappingEvents)].type = "STREAM_END"
    /\ event = NoEvent

(***************************************************************************)
(* The emitter after Emitter::new, set_output and set_canonical, given     *)
(* any events in any order by the application.  The writer may fail in     *)
(* any call.                                                               *)
(***************************************************************************)
EmitterEvents ==
    {StreamStartEvent("Any"), StreamEndEvent,
     DocumentStartEvent(None, <<>>, TRUE),
     DocumentStartEvent(Some([major |-> 2, minor |-> 0]), <<>>, FALSE),
     DocumentEndEvent(TRUE),
     AliasEvent(<<"x">>), AliasEvent(<<>>),
     ScalarEvent(None, None, <<"a">>, TRUE, FALSE, "Plain"),
     ScalarEvent(None, None, <<"a">>, FALSE, FALSE, "Plain"),
     ScalarEvent(None, Some(<<>>), <<"a">>, FALSE, FALSE, "Plain"),
     SequenceStartEvent(None, None, TRUE, "Block"), SequenceEndEvent,
     MappingStartEvent(None, None, TRUE, "Block"), MappingEndEvent}

InitEmitter ==
    /\ parser = yaml_parser_new(FreeInput("structure"))
    /\ event = NoEvent
    /\ ret = 1
    /\ call = [state |-> "NONE", error |-> "YAML_NO_ERROR", tag_directives |-> <<>>]
    /\ open = <<>>
    /\ balanced = TRUE
    /\ trace = <<>>
    /\ loaded = NotLoaded
    /\ got = NotGot
    /\ analysed = NotAnalysed
    /\ \E canonical \in BOOLEAN :
          emitter = set_canonical(set_output(Emitter_new), canonical)
    /\ emits = [calls |-> 0, failed |-> FALSE]

\* One call of Emitter::emit by the application.  A call that panicked ends
\* the use of the emitter.
Emit ==
    /\ emits.calls < MaxEmits
    /\ emitter.result # "Panic"
    /\ \E ev \in EmitterEvents, fails \in BOOLEAN :
          emitter' = emit([emitter EXCEPT !.result = "Ok", !.problem = NULL,
                                          !.write_handler.fails = fails], ev)
    /\ emits' = [calls |-> emits.calls + 1,
                 failed |-> emits.failed \/ emitter'.result = "Err"]
    /\ UNCHANGED <<parser, event, ret, call, open, balanced, trace, loaded, got,
                   analysed>>

NextEmitter == Emit

SpecEmitter == InitEmitter /\ [][NextEmitter]_vars

(***************************************************************************)
(* C3.  Emitter errors are terminal: once an emit call has returned Err,   *)
(* every later emit call returns Err as well, leaves the state and the     *)
(* state stack of the emitter as they were and writes nothing more, to     *)
(* the output buffer or to the writer.                                     *)
(***************************************************************************)
C3_EmitterErrorsTerminal ==
    [][emits.failed =>
          /\ emitter'.result = "Err"
          /\ emitter'.state = emitter.state
          /\ emitter'.states = emitter.states
          /\ emitter'.buffer = emitter.buffer
          /\ emitter'.write_handler.written = emitter.write_handler.written]_vars

(***************************************************************************)
(* C4.  When emit returns Err the events queue of the emitter is empty:    *)
(* neither the failing event nor an event queued behind it remains.        *)
(***************************************************************************)
C4_EventBufferDrained ==
    emitter.result = "Err" => emitter.events = <<>>

(***************************************************************************)
(* C11.  A Scalar event the parser returns with a style other than plain   *)
(* has a tag or is implicitly quoted (quoted_implicit = 1), whatever the   *)
(* style of the SCALAR token and whether the node has no tag, the bare tag *)
(* `!`, a verbatim tag or a tag resolved through a handle.                 *)
(***************************************************************************)
C11_QuotedScalarFlags ==
    ret = 1 /\ event.type = "SCALAR" /\ event.style # "PLAIN"
        => event.tag # NULL \/ event.quoted_implicit = 1

\* A double-quoted scalar without a tag, returned as implicitly quoted.
C11_Witness ==
    /\ ret = 1
    /\ event.type = "SCALAR"
    /\ event.style = "DOUBLE_QUOTED"
    /\ event.tag = NULL
    /\ event.quoted_implicit = 1

\* A double-quoted scalar with the tag a handle resolved to.
C11_WitnessTagged ==
    /\ ret = 1
    /\ event.type = "SCALAR"
    /\ event.style = "DOUBLE_QUOTED"
    /\ event.tag = "tag:e:x"
    /\ event.quoted_implicit = 0

(***************************************************************************)
(* C12.  emit runs the state machine on a DocumentStart at the head of the *)
(* queue only once 1 later event is buffered, on a SequenceStart only once *)
(* 2 and on a MappingStart only once 3 later events are buffered; until    *)
(* then emit returns Ok with the event still buffered.                     *)
(***************************************************************************)
C12_LookAhead(type) ==
    CASE type = "DocumentStart" -> 1
      [] type = "SequenceStart" -> 2
      [] type = "MappingStart" -> 3
      [] OTHER -> 0

\* The buffered events bring the nesting opened by the head back to zero.
C12_Closes(queue) == \E k \in 1..Len(queue) : level_after(queue, k) = 0

\* As stated: every event run through the state machine had its look-ahead.
C12_LookAheadAlways ==
    \A i \in 1..Len(emitter.steps) :
        Len(emitter.steps[i].queue) - 1
            >= C12_LookAhead(Head(emitter.steps[i].queue).type)

\* C12 as the code has it: the state machine runs on the head of the queue
\* only once its look-ahead is buffered or the buffered events already close
\* what the head opens, and an event left in the queue after an Ok is a
\* DocumentStart, SequenceStart or MappingStart still lacking both.
C12_LookAheadOrClosed ==
    /\ \A i \in 1..Len(emitter.steps) :
          \/ Len(emitter.steps[i].queue) - 1
                 >= C12_LookAhead(Head(emitter.steps[i].queue).type)
          \/ C12_Closes(emitter.steps[i].queue)
    /\ emitter.result = "Ok" /\ emitter.events # <<>>
          => /\ Head(emitter.events).type
                    \in {"DocumentStart", "SequenceStart", "MappingStart"}
             /\ Len(emitter.events) - 1 < C12_LookAhead(Head(emitter.events).type)
             /\ ~C12_Closes(emitter.events)

\* An empty sequence run through the state machine with one event behind it.
C12_Witness ==
    \E i \in 1..Len(emitter.steps) :
        /\ Head(emitter.steps[i].queue).type = "SequenceStart"
        /\ Len(emitter.steps[i].queue) = 2
        /\ emitter.steps[i].queue[2].type = "SequenceEnd"
        /\ emitter.steps[i].result = "Ok"

\* A MappingStart waiting with two events behind it, nothing run for it.
C12_WitnessWaiting ==
    /\ emitter.result = "Ok"
    /\ Len(emitter.events) = 3
    /\ Head(emitter.events).type = "MappingStart"
    /\ emitter.steps = <<>>

(***************************************************************************)
(* The emitter given collections of both styles, with a writer that never  *)
(* fails.                                                                  *)
(***************************************************************************)
LayoutEvents ==
    {StreamStartEvent("Any"),
     DocumentStartEvent(None, <<>>, TRUE), DocumentEndEvent(TRUE),
     ScalarEvent(None, None, <<"a">>, TRUE, FALSE, "Plain"),
     SequenceStartEvent(None, None, TRUE, "Block"),
     SequenceStartEvent(None, None, TRUE, "Flow"), SequenceEndEvent,
     MappingStartEvent(None, None, TRUE, "Block"),
     MappingStartEvent(None, None, TRUE, "Flow"), MappingEndEvent}

EmitLayout ==
    /\ emits.calls < MaxEmits
    /\ emitter.result # "Panic"
    /\ \E ev \in LayoutEvents :
          emitter' = emit([emitter EXCEPT !.result = "Ok", !.problem = NULL], ev)
    /\ emits' = [calls |-> emits.calls + 1,
                 failed |-> emits.failed \/ emitter'.result = "Err"]
    /\ UNCHANGED <<parser, event, ret, call, open, balanced, trace, loaded, got,
                   analysed>>

NextLayout == EmitLayout

SpecLayout == InitEmitter /\ [][NextLayout]_vars

(***************************************************************************)
(* C13.  A SequenceStart or MappingStart the emitter processes takes it to *)
(* the flow first-item state exactly when canonical is set, or flow_level  *)
(* is not zero, or the style of the event is Flow, or the next buffered    *)
(* event is the matching SequenceEnd or MappingEnd; in every other case it *)
(* takes it to the block first-item state.  So no block collection state   *)
(* is entered with flow_level above zero.                                  *)
(***************************************************************************)
C13_Flow(step, end) ==
    \/ step.canonical
    \/ step.flow_level # 0
    \/ Head(step.queue).style = "Flow"
    \/ Len(step.queue) >= 2 /\ step.queue[2].type = end

C13_CollectionStart(i) ==
    /\ emitter.steps[i].result = "Ok"
    /\ Head(emitter.steps[i].queue).type \in {"SequenceStart", "MappingStart"}

C13_FlowOrBlock ==
    \A i \in 1..Len(emitter.steps) :
        C13_CollectionStart(i) =>
            /\ emitter.steps[i].next =
                  IF Head(emitter.steps[i].queue).type = "SequenceStart"
                  THEN IF C13_Flow(emitter.steps[i], "SequenceEnd")
                       THEN "FlowSequenceFirstItem" ELSE "BlockSequenceFirstItem"
                  ELSE IF C13_Flow(emitter.steps[i], "MappingEnd")
                       THEN "FlowMappingFirstKey" ELSE "BlockMappingFirstKey"
            /\ emitter.steps[i].next
                   \in {"BlockSequenceFirstItem", "BlockMappingFirstKey"}
                  => emitter.steps[i].flow_level = 0

\* A block-style sequence with an item, met inside a flow sequence of a
\* stream that is not canonical, and laid out in flow style.
C13_Witness ==
    \E i \in 1..Len(emitter.steps) :
        /\ C13_CollectionStart(i)
        /\ Head(emitter.steps[i].queue).style = "Block"
        /\ Head(emitter.steps[i].queue).type = "SequenceStart"
        /\ emitter.steps[i].queue[2].type = "Scalar"
        /\ ~emitter.steps[i].canonical
        /\ emitter.steps[i].flow_level = 1
        /\ emitter.steps[i].next = "FlowSequenceFirstItem"

\* A block-style mapping with a key, laid out in block style.
C13_WitnessBlock ==
    \E i \in 1..Len(emitter.steps) :
        /\ C13_CollectionStart(i)
        /\ Head(emitter.steps[i].queue).type = "MappingStart"
        /\ emitter.steps[i].next = "BlockMappingFirstKey"

(***************************************************************************)
(* The emitter given scalars that differ in value, tag, implicit flags and *)
(* requested style, inside block and flow mappings.                        *)
(***************************************************************************)
ScalarEvents ==
    {StreamStartEvent("Any"), DocumentStartEvent(None, <<>>, TRUE),
     MappingStartEvent(None, None, TRUE, "Block"),
     MappingStartEvent(None, None, TRUE, "Flow"), MappingEndEvent,
     ScalarEvent(None, None, <<"a">>, TRUE, FALSE, "Plain"),
     ScalarEvent(None, None, <<>>, TRUE, FALSE, "Any"),
     ScalarEvent(None, None, <<"a", "\n", "b">>, TRUE, TRUE, "Literal"),
     ScalarEvent(None, None, <<"b">>, FALSE, TRUE, "Plain"),
     ScalarEvent(None, Some(<<"!", "t">>), <<"a">>, FALSE, FALSE, "Plain")}

EmitScalar ==
    /\ emits.calls < MaxEmits
    /\ emitter.result # "Panic"
    /\ \E ev \in ScalarEvents :
          emitter' = emit([emitter EXCEPT !.result = "Ok", !.problem = NULL], ev)
    /\ emits' = [calls |-> emits.calls + 1,
                 failed |-> emits.failed \/ emitter'.result = "Err"]
    /\ UNCHANGED <<parser, event, ret, call, open, balanced, trace, loaded, got,
                   analysed>>

NextScalar == EmitScalar

SpecScalar == InitEmitter /\ [][NextScalar]_vars

\* The style selections of the call of emit that led to the state.
Selections ==
    {unwrap(emitter.steps[i].selected) :
        i \in {j \in 1..Len(emitter.steps) : emitter.steps[j].selected # None}}

(***************************************************************************)
(* C14.  Whenever the emitter is in canonical mode, or the scalar is in    *)
(* simple-key context and its value is multiline, the style                *)
(* select_scalar_style selects is DoubleQuoted, whatever style the event   *)
(* requested and whatever the analysis flags are.                          *)
(***************************************************************************)
C14_Scalars == {ev \in ScalarEvents : ev.type = "Scalar"}

\* The analyses of a one-line and of a multiline value in the state reached.
C14_Analyses == {analyze_scalar(emitter, value) : value \in {<<"a">>, <<"a", "\n", "b">>}}

C14_Forced(selected, multiline, simple_key_context) ==
    /\ selected.result = "Ok"
    /\ emitter.canonical \/ (simple_key_context /\ multiline)
    => selected.style = "DoubleQuoted"

\* The selections the emitter made, and select_scalar_style applied in the
\* state reached, in and out of simple-key context, to each scalar event with
\* each analysis: a simple key is never multiline when emit_scalar is called.
C14_ForcedDoubleQuoted ==
    /\ \A selection \in Selections :
          \/ selection.canonical
          \/ selection.simple_key_context /\ selection.analysis.multiline
          => selection.style = "DoubleQuoted"
    /\ \A ev \in C14_Scalars, analysis \in C14_Analyses,
          simple_key_context \in BOOLEAN :
          C14_Forced(select_scalar_style(
                         [emitter EXCEPT !.simple_key_context = simple_key_context],
                         ev, analysis, None),
                     analysis.multiline, simple_key_context)

\* A canonical stream: a scalar that asked for plain style and may be plain.
C14_Witness ==
    \E selection \in Selections :
        /\ selection.canonical
        /\ selection.requested = "Plain"
        /\ selection.analysis.block_plain_allowed
        /\ selection.plain_implicit
        /\ selection.style = "DoubleQuoted"

\* A canonical stream: a scalar that asked for literal style.
C14_WitnessLiteral ==
    \E selection \in Selections :
        /\ selection.canonical
        /\ selection.requested = "Literal"
        /\ selection.analysis.multiline
        /\ selection.style = "DoubleQuoted"

(***************************************************************************)
(* C15.  The emitter selects Plain style for a scalar only when the        *)
(* analysis allows plain in the current context (flow_plain_allowed when   *)
(* flow_level > 0, block_plain_allowed otherwise), the value is not empty  *)
(* if the scalar is inside a flow collection or in simple-key context, and *)
(* the event has plain_implicit = true.                                    *)
(***************************************************************************)
C15_PlainAllowed(selection) ==
    /\ IF selection.flow_level > 0
       THEN selection.analysis.flow_plain_allowed
       ELSE selection.analysis.block_plain_allowed
    /\ selection.flow_level > 0 \/ selection.simple_key_context
          => selection.analysis.value # <<>>

\* As stated: a plain scalar is always implicitly plain.
C15_PlainOnlyImplicit ==
    \A selection \in Selections :
        selection.style = "Plain"
            => C15_PlainAllowed(selection) /\ selection.plain_implicit

\* C15 as the code has it: Plain is selected only when the analysis allows
\* plain in the context, the value is not empty inside a flow collection or
\* in simple-key context, and the event has plain_implicit = true or has a
\* tag and neither implicit flag, so that its tag is written.
C15_PlainOnlyImplicitOrTagged ==
    \A selection \in Selections :
        selection.style = "Plain"
            => /\ C15_PlainAllowed(selection)
               /\ \/ selection.plain_implicit
                  \/ is_some(selection.tag) /\ ~selection.quoted_implicit

\* A tagged scalar with neither implicit flag, written in plain style.
C15_Witness ==
    \E selection \in Selections :
        /\ selection.style = "Plain"
        /\ ~selection.plain_implicit
        /\ is_some(selection.tag)

\* An untagged scalar asking for plain style without plain_implicit, quoted.
C15_WitnessQuoted ==
    \E selection \in Selections :
        /\ selection.requested = "Plain"
        /\ ~selection.plain_implicit
        /\ selection.no_tag
        /\ selection.style = "SingleQuoted"

\* An empty scalar in a flow mapping, quoted.
C15_WitnessEmpty ==
    \E selection \in Selections :
        /\ selection.analysis.value = <<>>
        /\ selection.flow_level > 0
        /\ selection.plain_implicit
        /\ selection.style = "SingleQuoted"

(***************************************************************************)
(* C16.  In every emitter state an event that is not expected there yields *)
(* Err and is not written.  StreamStart accepts only StreamStart;          *)
(* FirstDocumentStart and DocumentStart accept only DocumentStart or       *)
(* StreamEnd; DocumentEnd accepts only DocumentEnd; DocumentContent and    *)
(* the mapping-value states accept only Alias, Scalar, SequenceStart or    *)
(* MappingStart; the sequence-item states also accept SequenceEnd and the  *)
(* mapping-key states also accept MappingEnd; End rejects every event.     *)
(***************************************************************************)
C16_Nodes == {"Alias", "Scalar", "SequenceStart", "MappingStart"}

C16_Accepted(state) ==
    CASE state = "StreamStart" -> {"StreamStart"}
      [] state \in {"FirstDocumentStart", "DocumentStart"} ->
            {"DocumentStart", "StreamEnd"}
      [] state = "DocumentEnd" -> {"DocumentEnd"}
      [] state \in {"DocumentContent", "FlowMappingSimpleValue", "FlowMappingValue",
                    "BlockMappingSimpleValue", "BlockMappingValue"} -> C16_Nodes
      [] state \in {"FlowSequenceFirstItem", "FlowSequenceItem",
                    "BlockSequenceFirstItem", "BlockSequenceItem"} ->
            C16_Nodes \cup {"SequenceEnd"}
      [] state \in {"FlowMappingFirstKey", "FlowMappingKey",
                    "BlockMappingFirstKey", "BlockMappingKey"} ->
            C16_Nodes \cup {"MappingEnd"}
      [] state = "End" -> {}

C16_Unexpected(step) == Head(step.queue).type \notin C16_Accepted(step.state)

\* As stated: the rejected event adds nothing to the output.
C16_UnexpectedRejected ==
    \A i \in 1..Len(emitter.steps) :
        C16_Unexpected(emitter.steps[i])
            => emitter.steps[i].result = "Err" /\ emitter.steps[i].text = <<>>

C16_Indicators == {"-", "?", ":", "[", "{", ",", " ", "\n"}

\* C16 as the code has it: the unexpected event yields Err; nothing is written
\* in the StreamStart, document and End states, and in the states of a
\* collection nothing but the indentation and the indicator that the state
\* writes before it looks at the kind of the event.
C16_UnexpectedRejectedAfterIndicator ==
    \A i \in 1..Len(emitter.steps) :
        C16_Unexpected(emitter.steps[i])
            => /\ emitter.steps[i].result = "Err"
               /\ \A k \in 1..Len(emitter.steps[i].text) :
                     emitter.steps[i].text[k] \in C16_Indicators
               /\ emitter.steps[i].state
                      \in {"StreamStart", "FirstDocumentStart", "DocumentStart",
                           "DocumentContent", "DocumentEnd", "End"}
                     => emitter.steps[i].text = <<>>

\* A StreamEnd where the first item of a block sequence is due: Err, after
\* the indicator of the item was written.
C16_Witness ==
    \E i \in 1..Len(emitter.steps) :
        /\ emitter.steps[i].state = "BlockSequenceFirstItem"
        /\ Head(emitter.steps[i].queue).type = "StreamEnd"
        /\ emitter.steps[i].result = "Err"
        /\ emitter.steps[i].text = <<"-">>

\* An event given to an emitter that has ended its stream.
C16_WitnessEnd ==
    \E i \in 1..Len(emitter.steps) :
        /\ emitter.steps[i].state = "End"
        /\ emitter.steps[i].result = "Err"
        /\ emitter.steps[i].text = <<>>

(***************************************************************************)
(* C17.  In canonical mode the emitter writes both boundaries of every     *)
(* document: `---` when it processes the DocumentStart and `...` when it   *)
(* processes the DocumentEnd, whatever the implicit flags of the two       *)
(* events.                                                                 *)
(***************************************************************************)
C17_Contains(text, marker) ==
    \E k \in 1..(Len(text) - Len(marker) + 1) :
        SubSeq(text, k, k + Len(marker) - 1) = marker

C17_Processed(step, type) ==
    /\ step.canonical
    /\ step.result = "Ok"
    /\ Head(step.queue).type = type
    /\ step.state \in {"FirstDocumentStart", "DocumentStart", "DocumentEnd"}

C17_CanonicalBoundaries ==
    \A i \in 1..Len(emitter.steps) :
        /\ C17_Processed(emitter.steps[i], "DocumentStart")
              => C17_Contains(emitter.steps[i].text, <<"-", "-", "-">>)
        /\ C17_Processed(emitter.steps[i], "DocumentEnd")
              => C17_Contains(emitter.steps[i].text, <<".", ".", ".">>)

(***************************************************************************)
(* The emitter given a whole stream, one event a call.  Two documents      *)
(* without directives: each root a scalar, a block sequence or a block     *)
(* mapping, each DocumentStart and DocumentEnd implicit or not.            *)
(***************************************************************************)
PlainScalar(value) == ScalarEvent(None, None, value, TRUE, FALSE, "Plain")

Roots(value) ==
    [scalar |-> <<PlainScalar(value)>>,
     sequence |-> <<SequenceStartEvent(None, None, TRUE, "Block"),
                    PlainScalar(value), SequenceEndEvent>>,
     mapping |-> <<MappingStartEvent(None, None, TRUE, "Block"),
                   PlainScalar(<<"k">>), PlainScalar(value), MappingEndEvent>>]

Document(root, start_implicit, end_implicit) ==
    <<DocumentStartEvent(None, <<>>, start_implicit)>> \o root
        \o <<DocumentEndEvent(end_implicit)>>

TwoDocuments ==
    {[kind |-> "TwoDocuments",
      of |-> [first |-> first, second |-> second, implicit |-> implicit],
      events |-> <<StreamStartEvent("Any")>>
                    \o Document(Roots(<<"a">>)[first], implicit[1], implicit[2])
                    \o Document(Roots(<<"b">>)[second], implicit[3], implicit[4])
                    \o <<StreamEndEvent>>] :
        first \in {"scalar", "sequence", "mapping"},
        second \in {"scalar", "sequence", "mapping"},
        implicit \in [1..4 -> BOOLEAN]}

\* One implicit document whose root is a literal scalar of two lines.
LiteralDocuments ==
    {[kind |-> "Literal",
      of |-> [plain_implicit |-> plain_implicit, quoted_implicit |-> quoted_implicit],
      events |-> <<StreamStartEvent("Any")>>
                    \o Document(<<ScalarEvent(None, None,
                                              <<"l", "1", "\n", "l", "2">>,
                                              plain_implicit, quoted_implicit,
                                              "Literal")>>, TRUE, TRUE)
                    \o <<StreamEndEvent>>] :
        plain_implicit \in BOOLEAN, quoted_implicit \in BOOLEAN}

\* A collection of the given type and style around its content.
Collection(type, style, content) ==
    IF type = "sequence"
    THEN <<SequenceStartEvent(None, None, TRUE, style)>> \o content
             \o <<SequenceEndEvent>>
    ELSE <<MappingStartEvent(None, None, TRUE, style)>> \o content
             \o <<MappingEndEvent>>

\* The content of a collection that holds a scalar and the nodes of inner:
\* inner is the first or the second item of a sequence, the key or the value
\* of a mapping's only pair.
Content(type, inner, at) ==
    IF at = 1 THEN inner \o <<PlainScalar(<<"a">>)>>
    ELSE <<PlainScalar(<<"a">>)>> \o inner

\* One implicit document whose root is a collection that holds a scalar and
\* another collection, itself empty or holding scalars.
NestedDocuments ==
    {[kind |-> "Nested",
      of |-> [outer |-> outer, inner |-> inner, at |-> at, empty |-> empty],
      events |-> <<StreamStartEvent("Any")>>
                    \o Document(
                           Collection(outer[1], outer[2],
                               Content(outer[1],
                                   Collection(inner[1], inner[2],
                                       IF empty THEN <<>>
                                       ELSE IF inner[1] = "sequence"
                                       THEN <<PlainScalar(<<"b">>)>>
                                       ELSE <<PlainScalar(<<"k">>),
                                              PlainScalar(<<"b">>)>>),
                                   at)),
                           TRUE, TRUE)
                    \o <<StreamEndEvent>>] :
        outer \in {"sequence", "mapping"} \X {"Block", "Flow"},
        inner \in {"sequence", "mapping"} \X {"Block", "Flow"},
        at \in 1..2, empty \in BOOLEAN}

Streams == TwoDocuments \cup LiteralDocuments \cup NestedDocuments

InitStream ==
    /\ parser = yaml_parser_new(FreeInput("structure"))
    /\ event = NoEvent
    /\ ret = 1
    /\ call = [state |-> "NONE", error |-> "YAML_NO_ERROR", tag_directives |-> <<>>]
    /\ open = <<>>
    /\ balanced = TRUE
    /\ trace = <<>>
    /\ loaded = NotLoaded
    /\ got = NotGot
    /\ analysed = NotAnalysed
    /\ emitter = set_output(Emitter_new)
    /\ \E stream \in Streams :
          emits = [calls |-> 0, failed |-> FALSE, stream |-> stream]

\* The application emits the next event of its stream.
EmitStream ==
    /\ emits.calls < Len(emits.stream.events)
    /\ emitter.result = "Ok"
    /\ emitter' = emit(emitter, emits.stream.events[emits.calls + 1])
    /\ emits' = [emits EXCEPT !.calls = @ + 1,
                              !.failed = @ \/ emitter'.result = "Err"]
    /\ UNCHANGED <<parser, event, ret, call, open, balanced, trace, loaded, got,
                   analysed>>

NextStream == EmitStream

SpecStream == InitStream /\ [][NextStream]_vars

(***************************************************************************)
(* C18.  Two documents without directives emitted in one stream with       *)
(* canonical off: the output of the first document has no leading `---`,   *)
(* and the two documents are separated by a line that is exactly `---` and *)
(* the line break, for a scalar, a sequence and a mapping as root and for  *)
(* every value of the implicit flags of the events.                        *)
(***************************************************************************)
C18_Done ==
    /\ emits.stream.kind = "TwoDocuments"
    /\ emits.calls = Len(emits.stream.events)
    /\ emitter.state = "End"

C18_Marker == <<"-", "-", "-">>

C18_Root(root, value) ==
    CASE root = "scalar" -> value \o <<"\n">>
      [] root = "sequence" -> <<"-", " ">> \o value \o <<"\n">>
      [] root = "mapping" -> <<"k", ":", " ">> \o value \o <<"\n">>

\* The `---` of a document: on the line of a scalar root, on a line of its
\* own before a block collection.
C18_Start(root) == C18_Marker \o (IF root = "scalar" THEN <<" ">> ELSE <<"\n">>)

C18_End(implicit) == IF implicit THEN <<>> ELSE <<".", ".", ".", "\n">>

C18_WitnessLine ==
    /\ C18_Done
    /\ Output(emitter) = <<"k", ":", " ", "a", "\n", "-", "-", "-", "\n",
                           "-", " ", "b", "\n">>

(***************************************************************************)
(* C19.  The root scalar of the two lines l1 and l2, in literal style with *)
(* plain_implicit or quoted_implicit set, in an implicit document with     *)
(* best_indent 2 and the line break Ln, is written as exactly `|`, break,  *)
(* two spaces, l1, break, two spaces, l2, break: no chomping indicator     *)
(* follows the `|`.                                                        *)
(***************************************************************************)
C19_Done ==
    /\ emits.stream.kind = "Literal"
    /\ emits.stream.of.plain_implicit \/ emits.stream.of.quoted_implicit
    /\ emits.calls = Len(emits.stream.events)
    /\ emitter.state = "End"
    /\ emitter.best_indent = 2
    /\ emitter.line_break = "Ln"

C19_Lines == <<"\n", " ", " ", "l", "1", "\n", " ", " ", "l", "2", "\n">>

\* As stated.
C19_LiteralClipped == C19_Done => Output(emitter) = <<"|">> \o C19_Lines

\* C19 as the code has it: the value does not end with a line break, so the
\* strip indicator `-` follows the `|`; and a scalar that is not
\* quoted_implicit gets the tag `!` written before it.
C19_LiteralStripped ==
    C19_Done =>
        Output(emitter) =
            (IF emits.stream.of.quoted_implicit THEN <<>> ELSE <<"!", " ">>)
            \o <<"|", "-">> \o C19_Lines

\* The quoted_implicit scalar written, with the strip indicator.
C19_Witness ==
    /\ C19_Done
    /\ emits.stream.of.quoted_implicit
    /\ Output(emitter) = <<"|", "-">> \o C19_Lines


(***************************************************************************)
(* The loader (loader.rs): yaml_parser_load composes the next document of  *)
(* the stream out of the events of yaml_parser_parse.  A load in progress  *)
(* is a record of the parser, the document being filled, the stack ctx of  *)
(* the open collections' node indices, the result so far and, as history,  *)
(* the events the load has consumed since its document started and, for   *)
(* each of them, the parent and the count of nodes it was handled with.    *)
(* The pushes' STACK_LIMIT and the allocations never fail at these sizes.  *)
(***************************************************************************)
Loading(p) ==
    [p |-> p, document |-> ZeroedDocument, ctx |-> <<>>, result |-> "Ok",
     events |-> <<>>, parents |-> <<>>]

\* History: the innermost open collection (0 at the root) and the number of
\* nodes of the document, as the loop finds them when it takes an event.
Position(l) ==
    [parent |-> IF l.ctx = <<>> THEN 0 ELSE Top(l.ctx),
     count |-> Len(l.document.nodes)]

yaml_parser_set_composer_error(l, problem, problem_mark) ==
    [l EXCEPT !.result = "Err", !.p.error = "YAML_COMPOSER_ERROR",
              !.p.problem = problem, !.p.problem_mark = problem_mark]

yaml_parser_set_composer_error_context(l, context, context_mark, problem, problem_mark) ==
    [l EXCEPT !.result = "Err", !.p.error = "YAML_COMPOSER_ERROR",
              !.p.context = context, !.p.context_mark = context_mark,
              !.p.problem = problem, !.p.problem_mark = problem_mark]

yaml_parser_delete_aliases(p) == [p EXCEPT !.aliases = <<>>]

yaml_document_delete(document) ==
    [document EXCEPT !.nodes = <<>>, !.version_directive = <<>>,
                     !.tag_directives = <<>>]

\* The positions of the alias data registered under the anchor.
Registered(p, anchor) == {i \in 1..Len(p.aliases) : p.aliases[i].anchor = anchor}

\* The first of the positions, as the scan from aliases.start meets it.
FirstOf(found) == CHOOSE i \in found : \A j \in found : i <= j

\* Registers every anchor, whether or not its name is already in the table.
yaml_parser_register_anchor_unchecked(l, index, anchor) ==
    IF anchor = NULL THEN l
    ELSE [l EXCEPT !.p.aliases =
             Append(@, [anchor |-> anchor, index |-> index,
                        mark |-> l.document.nodes[index].start_mark])]

yaml_parser_register_anchor(l, index, anchor) ==
    IF anchor = NULL THEN l
    ELSE IF Registered(l.p, anchor) # {}
    THEN yaml_parser_set_composer_error_context(l,
             "found duplicate anchor; first occurrence",
             l.p.aliases[FirstOf(Registered(l.p, anchor))].mark,
             "second occurrence", l.document.nodes[index].start_mark)
    ELSE [l EXCEPT !.p.aliases =
             Append(@, [anchor |-> anchor, index |-> index,
                        mark |-> l.document.nodes[index].start_mark])]

\* Adds every child of a mapping as the key of a new pair.
yaml_parser_load_node_add_as_key(l, index) ==
    IF l.ctx = <<>> THEN l
    ELSE CASE l.document.nodes[Top(l.ctx)].type = "SEQUENCE" ->
                [l EXCEPT !.document.nodes[Top(l.ctx)].items = Append(@, index)]
           [] l.document.nodes[Top(l.ctx)].type = "MAPPING" ->
                [l EXCEPT !.document.nodes[Top(l.ctx)].pairs =
                             Append(@, [key |-> index, value |-> 0])]
           [] OTHER -> [l EXCEPT !.result = "Panic"]

yaml_parser_load_node_add(l, index) ==
    IF l.ctx = <<>> THEN l
    ELSE CASE l.document.nodes[Top(l.ctx)].type = "SEQUENCE" ->
                [l EXCEPT !.document.nodes[Top(l.ctx)].items = Append(@, index)]
           [] l.document.nodes[Top(l.ctx)].type = "MAPPING" ->
                IF /\ l.document.nodes[Top(l.ctx)].pairs # <<>>
                   /\ Top(l.document.nodes[Top(l.ctx)].pairs).key # 0
                   /\ Top(l.document.nodes[Top(l.ctx)].pairs).value = 0
                THEN [l EXCEPT !.document.nodes[Top(l.ctx)].pairs[
                                  Len(l.document.nodes[Top(l.ctx)].pairs)].value = index]
                ELSE [l EXCEPT !.document.nodes[Top(l.ctx)].pairs =
                                  Append(@, [key |-> index, value |-> 0])]
           [] OTHER -> [l EXCEPT !.result = "Panic"]

\* Takes an alias that names no registered anchor for a node without parent.
yaml_parser_load_alias_lenient(l, ev) ==
    IF Registered(l.p, ev.anchor) # {}
    THEN yaml_parser_load_node_add(l,
             l.p.aliases[FirstOf(Registered(l.p, ev.anchor))].index)
    ELSE l

yaml_parser_load_alias(l, ev) ==
    IF Registered(l.p, ev.anchor) # {}
    THEN yaml_parser_load_node_add(l,
             l.p.aliases[FirstOf(Registered(l.p, ev.anchor))].index)
    ELSE yaml_parser_set_composer_error(l, "found undefined alias", ev.start_mark)

\* A node of the given type and tag, at the marks of the event that starts it;
\* a missing tag and the tag "!" are replaced by the type's default tag.
Node(type, default, ev) ==
    [type |-> type,
     tag |-> IF ev.tag = NULL \/ ev.tag = "!" THEN default ELSE ev.tag,
     value |-> ev.value, style |-> ev.style, items |-> <<>>, pairs |-> <<>>,
     start_mark |-> ev.start_mark, end_mark |-> ev.end_mark]

\* PUSH!(document.nodes, node): the node's index is the new count of nodes.
PushNode(l, node) == [l EXCEPT !.document.nodes = Append(@, node)]

yaml_parser_load_scalar(l, ev) ==
    Try(yaml_parser_register_anchor(
            PushNode(l, Node("SCALAR", "tag:yaml.org,2002:str", ev)),
            Len(l.document.nodes) + 1, ev.anchor),
        LAMBDA m : yaml_parser_load_node_add(m, Len(l.document.nodes) + 1))

yaml_parser_load_sequence(l, ev) ==
    Try(Try(yaml_parser_register_anchor(
                PushNode(l, Node("SEQUENCE", "tag:yaml.org,2002:seq", ev)),
                Len(l.document.nodes) + 1, ev.anchor),
            LAMBDA m : yaml_parser_load_node_add(m, Len(l.document.nodes) + 1)),
        LAMBDA m : [m EXCEPT !.ctx = Append(@, Len(l.document.nodes) + 1)])

yaml_parser_load_sequence_end(l, ev) ==
    IF l.ctx = <<>> THEN [l EXCEPT !.result = "Panic"]
    ELSE IF l.document.nodes[Top(l.ctx)].type # "SEQUENCE"
    THEN [l EXCEPT !.result = "Panic"]
    ELSE [l EXCEPT !.document.nodes[Top(l.ctx)].end_mark = ev.end_mark,
                   !.ctx = Pop(@)]

yaml_parser_load_mapping(l, ev) ==
    Try(Try(yaml_parser_register_anchor(
                PushNode(l, Node("MAPPING", "tag:yaml.org,2002:map", ev)),
                Len(l.document.nodes) + 1, ev.anchor),
            LAMBDA m : yaml_parser_load_node_add(m, Len(l.document.nodes) + 1)),
        LAMBDA m : [m EXCEPT !.ctx = Append(@, Len(l.document.nodes) + 1)])

yaml_parser_load_mapping_end(l, ev) ==
    IF l.ctx = <<>> THEN [l EXCEPT !.result = "Panic"]
    ELSE IF l.document.nodes[Top(l.ctx)].type # "MAPPING"
    THEN [l EXCEPT !.result = "Panic"]
    ELSE [l EXCEPT !.document.nodes[Top(l.ctx)].end_mark = ev.end_mark,
                   !.ctx = Pop(@)]

\* The arm of yaml_parser_load_nodes' match that handles a node's event.
LoadEvent(l, ev) ==
    CASE ev.type = "ALIAS" -> yaml_parser_load_alias(l, ev)
      [] ev.type = "SCALAR" -> yaml_parser_load_scalar(l, ev)
      [] ev.type = "SEQUENCE_START" -> yaml_parser_load_sequence(l, ev)
      [] ev.type = "SEQUENCE_END" -> yaml_parser_load_sequence_end(l, ev)
      [] ev.type = "MAPPING_START" -> yaml_parser_load_mapping(l, ev)
      [] ev.type = "MAPPING_END" -> yaml_parser_load_mapping_end(l, ev)

RECURSIVE yaml_parser_load_nodes(_)

\* The `?` after a handler, then the next turn of the loop.
LoadRest(l) == IF l.result # "Ok" THEN {l} ELSE yaml_parser_load_nodes(l)

\* The outcomes of the loop: one for each way the parser may go on.
yaml_parser_load_nodes(l) ==
    UNION {IF o.ret = 0
           THEN {[l EXCEPT !.p = o.p, !.result = "Err"]}
           ELSE IF o.event.type \in {"NO_EVENT", "STREAM_START", "STREAM_END",
                                     "DOCUMENT_START"}
           THEN {[l EXCEPT !.p = o.p, !.result = "Panic"]}
           ELSE IF o.event.type = "DOCUMENT_END"
           THEN {[l EXCEPT !.p = o.p, !.events = Append(@, o.event),
                           !.parents = Append(@, Position(l)),
                           !.document.end_implicit = o.event.implicit,
                           !.document.end_mark = o.event.end_mark]}
           ELSE LoadRest(LoadEvent([l EXCEPT !.p = o.p,
                                             !.events = Append(@, o.event),
                                             !.parents = Append(@, Position(l))],
                                   o.event)) :
           o \in yaml_parser_parse(l.p)}

yaml_parser_load_document(l, ev) ==
    IF ev.type = "DOCUMENT_START"
    THEN yaml_parser_load_nodes(
             [l EXCEPT !.document.version_directive = ev.version_directive,
                       !.document.tag_directives = ev.tag_directives,
                       !.document.start_implicit = ev.implicit,
                       !.document.start_mark = ev.start_mark,
                       !.ctx = <<>>])
    ELSE {[l EXCEPT !.result = "Panic"]}

\* The end of yaml_parser_load after yaml_parser_load_document: the aliases
\* are deleted on success, the aliases and the document on failure; a panic
\* unwinds and cleans nothing.
LoadDone(l) ==
    CASE l.result = "Ok" -> [l EXCEPT !.p = yaml_parser_delete_aliases(@)]
      [] l.result = "Err" ->
            [l EXCEPT !.p = yaml_parser_delete_aliases(@),
                      !.document = yaml_document_delete(@)]
      [] OTHER -> l

\* Goes on to parse without asking whether the stream's end was produced.
LoadNextDocument_unchecked(l) ==
    UNION {IF o.ret = 0
           THEN {LoadDone([l EXCEPT !.p = o.p, !.result = "Err"])}
           ELSE IF o.event.type = "STREAM_END"
           THEN {[l EXCEPT !.p = o.p]}
           ELSE {LoadDone(m) :
                    m \in yaml_parser_load_document(
                              [l EXCEPT !.p = [o.p EXCEPT !.aliases = <<>>]],
                              o.event)} :
           o \in yaml_parser_parse(l.p)}

\* yaml_parser_load once the stream's start has been produced.
LoadNextDocument(l) ==
    IF l.p.stream_end_produced THEN {l}
    ELSE UNION {IF o.ret = 0
                THEN {LoadDone([l EXCEPT !.p = o.p, !.result = "Err"])}
                ELSE IF o.event.type = "STREAM_END"
                THEN {[l EXCEPT !.p = o.p]}
                ELSE {LoadDone(m) :
                         m \in yaml_parser_load_document(
                                   [l EXCEPT !.p = [o.p EXCEPT !.aliases = <<>>]],
                                   o.event)} :
                o \in yaml_parser_parse(l.p)}

yaml_parser_load(p) ==
    IF ~p.stream_start_produced
    THEN UNION {IF o.ret = 0
                THEN {LoadDone([Loading(o.p) EXCEPT !.result = "Err"])}
                ELSE IF o.event.type # "STREAM_START"
                THEN {[Loading(o.p) EXCEPT !.result = "Panic"]}
                ELSE LoadNextDocument(Loading(o.p)) :
                o \in yaml_parser_parse(p)}
    ELSE LoadNextDocument(Loading(p))

(***************************************************************************)
(* The loader's specification: an application that calls yaml_parser_load  *)
(* again and again on one parser, until a call panics.  The parser reads a *)
(* scripted stream: flow sequences and documents of anchored scalars and   *)
(* aliases, and a few mappings.                                            *)
(***************************************************************************)
\* The longest body of a generated stream.
MaxAnchors == 4

AnchorTokens ==
    {AnchorToken("x"), AnchorToken("y"), AliasToken("x"),
     ScalarToken("a", "PLAIN"), Token("FLOW_SEQUENCE_START"),
     Token("FLOW_ENTRY"), Token("FLOW_SEQUENCE_END"), Token("DOCUMENT_START")}

\* { &x a: &x b }, &x { a: &x b } and &x [ a, { &y b: *x } ]
AnchoredMappings ==
    {<<Token("FLOW_MAPPING_START"), Token("KEY"), AnchorToken("x"),
       ScalarToken("a", "PLAIN"), Token("VALUE"), AnchorToken("x"),
       ScalarToken("b", "PLAIN"), Token("FLOW_MAPPING_END")>>,
     <<AnchorToken("x"), Token("FLOW_MAPPING_START"), Token("KEY"),
       ScalarToken("a", "PLAIN"), Token("VALUE"), AnchorToken("x"),
       ScalarToken("b", "PLAIN"), Token("FLOW_MAPPING_END")>>,
     <<AnchorToken("x"), Token("FLOW_SEQUENCE_START"), ScalarToken("a", "PLAIN"),
       Token("FLOW_ENTRY"), Token("FLOW_MAPPING_START"), Token("KEY"),
       AnchorToken("y"), ScalarToken("b", "PLAIN"), Token("VALUE"),
       AliasToken("x"), Token("FLOW_MAPPING_END"), Token("FLOW_SEQUENCE_END")>>}

AnchorStreams ==
    {<<Token("STREAM_START")>> \o body \o <<Token("STREAM_END")>> :
        body \in AnchoredMappings
                 \cup UNION {[1..n -> AnchorTokens] : n \in 0..MaxAnchors}}

InitLoader ==
    /\ \E stream \in AnchorStreams :
          parser = yaml_parser_new(ScriptedInput(Stamp(stream)))
    /\ event = NoEvent
    /\ ret = 1
    /\ call = [state |-> "NONE", error |-> "YAML_NO_ERROR", tag_directives |-> <<>>]
    /\ open = <<>>
    /\ balanced = TRUE
    /\ trace = <<>>
    /\ emitter = Emitter_new
    /\ emits = [calls |-> 0, failed |-> FALSE]
    /\ loaded = NotLoaded
    /\ got = NotGot
    /\ analysed = NotAnalysed

\* One call of yaml_parser_load by the application.
Load ==
    /\ loaded.result # "Panic"
    /\ got.result # "Panic"
    /\ \E l \in yaml_parser_load([parser EXCEPT !.skipped = <<>>]) :
          /\ parser' = l.p
          /\ loaded' = [document |-> l.document, result |-> l.result,
                        events |-> l.events, parents |-> l.parents,
                        returned |-> IF l.result = "Ok" /\ l.events # <<>>
                                     THEN Append(loaded.returned,
                                                 [document |-> l.document,
                                                  events |-> l.events])
                                     ELSE loaded.returned]
    /\ UNCHANGED <<event, ret, call, open, balanced, trace, emitter, emits, got,
                   analysed>>

NextLoader == Load

SpecLoader == InitLoader /\ [][NextLoader]_vars

(***************************************************************************)
(* C20: while yaml_parser_load composes one document, a second node that   *)
(* carries an anchor name already registered in that document makes the    *)
(* load fail with a composer error that names the duplicate anchor and the *)
(* marks of its first and second occurrence, and the failed load leaves    *)
(* the document without nodes and the parser's alias table empty.          *)
(***************************************************************************)
\* The events of the last load that start a node.
C20_NodeEvents ==
    {i \in 1..Len(loaded.events) :
        loaded.events[i].type \in {"SCALAR", "SEQUENCE_START", "MAPPING_START"}}

\* The pairs of nodes of the last load's document that carry the same anchor.
C20_Duplicates ==
    {d \in C20_NodeEvents \X C20_NodeEvents :
        /\ d[1] < d[2]
        /\ loaded.events[d[1]].anchor # NULL
        /\ loaded.events[d[1]].anchor = loaded.events[d[2]].anchor}

\* C20: a load that met a second node with an anchor of its document failed
\* with the composer error of the duplicate anchor, at the marks of the two
\* nodes, and left no node in the document and no alias in the parser.
C20_DuplicateAnchorFails ==
    \A d \in C20_Duplicates :
        /\ loaded.result = "Err"
        /\ parser.error = "YAML_COMPOSER_ERROR"
        /\ parser.context = "found duplicate anchor; first occurrence"
        /\ parser.context_mark = loaded.events[d[1]].start_mark
        /\ parser.problem = "second occurrence"
        /\ parser.problem_mark = loaded.events[d[2]].start_mark
        /\ d[2] = Len(loaded.events)
        /\ loaded.document.nodes = <<>>
        /\ parser.aliases = <<>>

\* A load has failed on the second of two nodes anchored alike, after it had
\* composed other nodes of the document.
C20_Witness ==
    /\ C20_Duplicates # {}
    /\ loaded.result = "Err"
    /\ Len(loaded.events) > 2
    /\ loaded.document.nodes = <<>>
    /\ parser.aliases = <<>>


(***************************************************************************)
(* C21: during yaml_parser_load an Alias event resolves only to an anchor  *)
(* registered earlier in the same document, and the id of that node is     *)
(* appended to the current parent; an alias whose name was not registered  *)
(* in the current document, a name anchored in a previous document of the  *)
(* stream included, fails with the composer error `found undefined alias`. *)
(***************************************************************************)
\* The Alias events of the last load.
C21_AliasEvents ==
    {i \in 1..Len(loaded.events) : loaded.events[i].type = "ALIAS"}

\* The nodes of the last load's document, before event i, that carry its anchor.
C21_Registered(i) ==
    {j \in C20_NodeEvents :
        j < i /\ loaded.events[j].anchor = loaded.events[i].anchor}

\* The id an event gives its parent: the id of the node it starts, or the id
\* of the first node registered under the alias's anchor.
C21_Id(i) ==
    IF loaded.events[i].type = "ALIAS"
    THEN loaded.parents[Min(C21_Registered(i))].count + 1
    ELSE loaded.parents[i].count + 1

\* The events that add a child to the collection node p, and the k-th of them.
C21_ChildEvents(p) ==
    {i \in C20_NodeEvents \cup C21_AliasEvents : loaded.parents[i].parent = p}

C21_ChildEvent(p, k) ==
    CHOOSE i \in C21_ChildEvents(p) :
        Cardinality({j \in C21_ChildEvents(p) : j <= i}) = k

\* The load failed on event i with the error of an undefined alias.
C21_Undefined(i) ==
    /\ loaded.result = "Err"
    /\ i = Len(loaded.events)
    /\ parser.error = "YAML_COMPOSER_ERROR"
    /\ parser.problem = "found undefined alias"
    /\ parser.problem_mark = loaded.events[i].start_mark

\* C21: an alias of the last load failed as undefined exactly if no earlier
\* node of the same document carried its anchor, and in a document that was
\* loaded every sequence holds the ids of its children in order and every
\* mapping holds them in pairs, an alias counting as the node it names.
C21_AliasesResolved ==
    /\ \A i \in C21_AliasEvents : C21_Undefined(i) <=> C21_Registered(i) = {}
    /\ loaded.result = "Ok" =>
          \A p \in 1..Len(loaded.document.nodes) :
              /\ loaded.document.nodes[p].type = "SEQUENCE" =>
                    loaded.document.nodes[p].items =
                        [k \in 1..Cardinality(C21_ChildEvents(p)) |->
                            C21_Id(C21_ChildEvent(p, k))]
              /\ loaded.document.nodes[p].type = "MAPPING" =>
                    loaded.document.nodes[p].pairs =
                        [k \in 1..(Cardinality(C21_ChildEvents(p)) \div 2) |->
                            [key |-> C21_Id(C21_ChildEvent(p, 2 * k - 1)),
                             value |-> C21_Id(C21_ChildEvent(p, 2 * k))]]

\* A document was loaded in which an alias inside a collection named a node
\* anchored before it.
C21_Witness ==
    /\ loaded.result = "Ok"
    /\ \E i \in C21_AliasEvents :
          C21_Registered(i) # {} /\ loaded.parents[i].parent > 0

\* A load failed on an alias whose name a document returned before had anchored.
C21_WitnessPreviousDocument ==
    /\ C21_AliasEvents # {}
    /\ C21_Undefined(Len(loaded.events))
    /\ \E k \in 1..Len(loaded.returned) :
          \E j \in 1..Len(loaded.returned[k].events) :
              loaded.returned[k].events[j].anchor = Top(loaded.events).anchor


(***************************************************************************)
(* C22: the node graph of every document yaml_parser_load produces is      *)
(* acyclic: no item of a sequence and no key or value of a mapping leads,  *)
(* through any chain of items and pairs, back to the node that holds it.   *)
(***************************************************************************)
\* The ids a node of the document holds: its items, its keys and its values.
C22_Children(document, p) ==
    {document.nodes[p].items[k] : k \in 1..Len(document.nodes[p].items)}
    \cup {document.nodes[p].pairs[k].key : k \in 1..Len(document.nodes[p].pairs)}
    \cup {document.nodes[p].pairs[k].value : k \in 1..Len(document.nodes[p].pairs)}

\* The ids reached from the ids of S in at most n more steps.
RECURSIVE C22_Reached(_, _, _)
C22_Reached(document, S, n) ==
    IF n = 0 THEN S
    ELSE C22_Reached(document,
                     S \cup UNION {C22_Children(document, p) : p \in S \ {0}},
                     n - 1)

\* C22: no node of a loaded document is among its own descendants.
C22_Acyclic ==
    loaded.result = "Ok" =>
        \A p \in 1..Len(loaded.document.nodes) :
            p \notin C22_Reached(loaded.document, C22_Children(loaded.document, p),
                                 Len(loaded.document.nodes))


(***************************************************************************)
(* The accessors of a document (api.rs).  A usize is 64 bits wide: it is   *)
(* kept as its four 16-bit limbs, the lowest first, so that the cast of a  *)
(* negative i32 and the subtraction keep their width.  A subtraction that  *)
(* overflows panics in a build with overflow checks and wraps in a build   *)
(* without them: the accessor returns the set of the outcomes.             *)
(***************************************************************************)
I32_MIN == (0 - I32_MAX) - 1

\* The number of values of a limb.
Limb == 2 ^ 16

\* index as usize: the sign-extension of the i32 to 64 bits.
as_usize(index) ==
    <<index % Limb, (index \div Limb) % Limb,
      IF index < 0 THEN Limb - 1 ELSE 0, IF index < 0 THEN Limb - 1 ELSE 0>>

\* n - 1 in wrapping arithmetic: the borrow runs through the limbs that are 0.
wrapping_sub_one(n) ==
    [k \in 1..4 |->
        IF \A j \in 1..(k - 1) : n[j] = 0
        THEN (n[k] - 1) % Limb
        ELSE n[k]]

\* Vec::get_mut: the element at the 0-based position n, if there is one.
get_mut(nodes, n) ==
    IF n[4] = 0 /\ n[3] = 0 /\ n[2] = 0 /\ n[1] < Len(nodes)
    THEN Some(nodes[n[1] + 1])
    ELSE None

yaml_document_get_node(document, index) ==
    IF as_usize(index) = <<0, 0, 0, 0>>
    THEN {[result |-> "Panic", node |-> None],
          [result |-> "Returned",
           node |-> get_mut(document.nodes, wrapping_sub_one(as_usize(index)))]}
    ELSE {[result |-> "Returned",
           node |-> get_mut(document.nodes, wrapping_sub_one(as_usize(index)))]}

yaml_document_get_root_node(document) == get_mut(document.nodes, <<0, 0, 0, 0>>)

(***************************************************************************)
(* The specification of an application that loads the documents of a      *)
(* stream and asks each of them for nodes, by indices in and out of range. *)
(***************************************************************************)
Indices(document) ==
    {I32_MIN, (0 - Limb) - 1, 0 - Limb, 0 - 1, 0, Len(document.nodes) + 1,
     Limb, Limb + 1, I32_MAX}
    \cup 1..Len(document.nodes)

\* One call of yaml_document_get_node on the document of the last load.
GetNode ==
    /\ loaded.result = "Ok"
    /\ got.result # "Panic"
    /\ \E index \in Indices(loaded.document) :
          \E o \in yaml_document_get_node(loaded.document, index) :
              got' = [nodes |-> loaded.document.nodes, index |-> index,
                      result |-> o.result, node |-> o.node]
    /\ UNCHANGED <<parser, event, ret, call, open, balanced, trace, emitter,
                   emits, loaded, analysed>>

NextDocument == Load \/ GetNode

SpecDocument == InitLoader /\ [][NextDocument]_vars

(***************************************************************************)
(* C23: yaml_document_get_node(document, index) returns the node with the  *)
(* 1-based id index when 1 <= index <= number of nodes, and returns None,  *)
(* without panicking or wrapping to a valid slot, for every other i32      *)
(* index, 0 and the negative values included.                              *)
(***************************************************************************)
\* C23: the last call returned the node of its index or, out of range, None.
C23_GetNode ==
    got.result # "None" =>
        /\ got.result = "Returned"
        /\ got.node = IF got.index \in 1..Len(got.nodes)
                      THEN Some(got.nodes[got.index])
                      ELSE None

\* C23, but for the index 0.
C23_GetNodeButZero ==
    got.result # "None" /\ got.index # 0 =>
        /\ got.result = "Returned"
        /\ got.node = IF got.index \in 1..Len(got.nodes)
                      THEN Some(got.nodes[got.index])
                      ELSE None


(***************************************************************************)
(* C24: successive yaml_parser_load calls on one parser return the         *)
(* documents of the stream in order, and once the StreamEnd event has been *)
(* consumed every further call returns Ok with a document that has no root *)
(* node and does not change the parser.                                    *)
(***************************************************************************)
\* The events successive yaml_parser_parse calls return from p on, up to the
\* end of the stream or the first error, and at most n of them.
RECURSIVE C24_Events(_, _)
C24_Events(p, n) ==
    IF n = 0 THEN {<<>>}
    ELSE UNION {IF o.ret = 0 \/ o.event.type \in {"NO_EVENT", "STREAM_END"}
                THEN {<<>>}
                ELSE {<<o.event>> \o rest : rest \in C24_Events(o.p, n - 1)} :
                o \in yaml_parser_parse(p)}

\* The positions of the DocumentStart events that have their DocumentEnd.
C24_Starts(events) ==
    {i \in 1..Len(events) :
        /\ events[i].type = "DOCUMENT_START"
        /\ \E j \in (i + 1)..Len(events) : events[j].type = "DOCUMENT_END"}

\* The position of the DocumentEnd that closes the document started at i.
C24_End(events, i) ==
    Min({j \in (i + 1)..Len(events) : events[j].type = "DOCUMENT_END"})

\* The documents returned so far are the first documents of these events:
\* each was composed of the events of its document and starts at its mark.
C24_FirstDocuments(events) ==
    /\ Len(loaded.returned) <= Cardinality(C24_Starts(events))
    /\ \A i \in C24_Starts(events) :
          Cardinality({j \in C24_Starts(events) : j <= i}) <= Len(loaded.returned) =>
              /\ loaded.returned[Cardinality({j \in C24_Starts(events) : j <= i})].events
                    = SubSeq(events, i + 1, C24_End(events, i))
              /\ loaded.returned[Cardinality({j \in C24_Starts(events) : j <= i})]
                    .document.start_mark = events[i].start_mark
    /\ parser.stream_end_produced =>
          Len(loaded.returned) = Cardinality(C24_Starts(events))

C24_InOrder ==
    \A events \in C24_Events(yaml_parser_new(ScriptedInput(parser.input.stream)),
                             4 * Len(parser.input.stream)) :
        C24_FirstDocuments(events)

\* A call made after the end of the stream was produced.
C24_AfterStreamEnd ==
    parser.stream_end_produced =>
        /\ loaded'.result = "Ok"
        /\ loaded'.document.nodes = <<>>
        /\ yaml_document_get_root_node(loaded'.document) = None
        /\ loaded'.returned = loaded.returned
        /\ [parser' EXCEPT !.skipped = <<>>] = [parser EXCEPT !.skipped = <<>>]

\* C24: the documents returned are those of the stream, in order, and a
\* call after the end of the stream returns Ok and an empty document and
\* leaves the parser as it was.
C24_DocumentsInOrder == [](C24_InOrder) /\ [][C24_AfterStreamEnd]_vars

\* Two documents have been returned, the end of the stream was consumed and
\* a further call has returned.
C24_Witness ==
    /\ Len(loaded.returned) >= 2
    /\ parser.stream_end_produced
    /\ parser.skipped = <<>>
    /\ loaded.result = "Ok"
    /\ loaded.document.nodes = <<>>


(***************************************************************************)
(* C25: the emitter writes a scalar in Literal or Folded style only if the *)
(* event requested that style, canonical is off, flow_level is 0, the      *)
(* scalar is not in simple-key context and the analysis has block_allowed; *)
(* in every other case a requested Literal or Folded style is replaced by  *)
(* DoubleQuoted.                                                           *)
(***************************************************************************)
C25_BlockStyles == {"Literal", "Folded"}

\* The scalars that ask for a block style, with the flags of the emitter's
\* literal scalar.
C25_Scalars ==
    {[ev EXCEPT !.style = style] :
        ev \in {sc \in C14_Scalars : sc.style = "Literal"}, style \in C25_BlockStyles}

\* The analyses of a value that may be written in a block style and of one
\* that may not, for its trailing space.
C25_Analyses ==
    {analyze_scalar(emitter, value) : value \in {<<"a", "\n", "b">>, <<"a", " ">>}}

\* The style selected for a scalar that requested a style in this context.
C25_Selected(style, requested, canonical, flow_level, simple_key_context,
             block_allowed) ==
    IF /\ requested \in C25_BlockStyles
       /\ ~canonical
       /\ flow_level = 0
       /\ ~simple_key_context
       /\ block_allowed
    THEN style = requested
    ELSE /\ style \notin C25_BlockStyles
         /\ requested \in C25_BlockStyles => style = "DoubleQuoted"

C25_SelectedBy(selected, requested, flow_level, simple_key_context, block_allowed) ==
    /\ selected.result = "Ok"
    /\ C25_Selected(selected.style, requested, emitter.canonical, flow_level,
                    simple_key_context, block_allowed)

\* C25: the selections the emitter made, and select_scalar_style applied in
\* the state reached to the scalars that request a block style, in and out
\* of a flow collection and of simple-key context, with a value that allows
\* block styles and one that does not.
C25_BlockStyleOnlyInBlock ==
    /\ \A selection \in Selections :
          C25_Selected(selection.style, selection.requested, selection.canonical,
                       selection.flow_level, selection.simple_key_context,
                       selection.analysis.block_allowed)
    /\ \A ev \in C25_Scalars, analysis \in C25_Analyses,
          simple_key_context \in BOOLEAN, flow_level \in 0..1 :
          C25_SelectedBy(select_scalar_style(
                             [emitter EXCEPT !.simple_key_context = simple_key_context,
                                             !.flow_level = flow_level],
                             ev, analysis, None),
                         ev.style, flow_level, simple_key_context,
                         analysis.block_allowed)

\* A literal scalar was written as the value of a block mapping.
C25_Witness ==
    \E selection \in Selections :
        /\ selection.requested = "Literal"
        /\ selection.style = "Literal"
        /\ emitter.state = "BlockMappingKey"

\* A scalar that asked for literal style was double-quoted inside a flow
\* mapping of a stream that is not canonical.
C25_WitnessFlow ==
    \E selection \in Selections :
        /\ selection.requested = "Literal"
        /\ ~selection.canonical
        /\ selection.flow_level > 0
        /\ selection.style = "DoubleQuoted"


(***************************************************************************)
(* C26: for every Scalar event the emitter accepts: if no tag is going to  *)
(* be written for it, quoted_implicit is false and the style selected is   *)
(* not Plain, the emitter writes the non-specific tag `!` before the       *)
(* scalar; and if the event has no tag and both plain_implicit and         *)
(* quoted_implicit are false, emit returns an emitter error instead.       *)
(***************************************************************************)
\* The text holds the tag `!`, a space and then the indicator that opens a
\* quoted or a block scalar.
C26_TagWritten(text) ==
    \E k \in 1..(Len(text) - 2) :
        /\ text[k] = "!"
        /\ text[k + 1] = " "
        /\ text[k + 2] \in {"'", "\"", "|", ">"}

\* The step took a Scalar event in a state that accepts a node.
C26_ScalarAccepted(step) ==
    /\ Head(step.queue).type = "Scalar"
    /\ "Scalar" \in C16_Accepted(step.state)

\* C26: a scalar without a tag to write and without quoted_implicit that was
\* given another style than Plain has `!` written before it, and an untagged
\* scalar with neither implicit flag ends the call with the emitter's error.
C26_NonSpecificTag ==
    \A i \in 1..Len(emitter.steps) :
        /\ /\ emitter.steps[i].selected # None
           /\ unwrap(emitter.steps[i].selected).no_tag
           /\ ~unwrap(emitter.steps[i].selected).quoted_implicit
           /\ unwrap(emitter.steps[i].selected).style # "Plain"
           => /\ emitter.steps[i].result = "Ok"
              /\ C26_TagWritten(emitter.steps[i].text)
        /\ /\ C26_ScalarAccepted(emitter.steps[i])
           /\ Head(emitter.steps[i].queue).tag = None
           /\ ~Head(emitter.steps[i].queue).plain_implicit
           /\ ~Head(emitter.steps[i].queue).quoted_implicit
           => /\ emitter.steps[i].result = "Err"
              /\ emitter.steps[i].selected = None
              /\ i = Len(emitter.steps)
              /\ emitter.result = "Err"
              /\ emitter.problem = "neither tag nor implicit flags are specified"

\* A scalar that is only plain_implicit was double-quoted and tagged `!`.
C26_Witness ==
    \E i \in 1..Len(emitter.steps) :
        /\ emitter.steps[i].selected # None
        /\ unwrap(emitter.steps[i].selected).no_tag
        /\ unwrap(emitter.steps[i].selected).plain_implicit
        /\ ~unwrap(emitter.steps[i].selected).quoted_implicit
        /\ unwrap(emitter.steps[i].selected).style = "DoubleQuoted"
        /\ C26_TagWritten(emitter.steps[i].text)

\* An untagged scalar with neither implicit flag was rejected where a node
\* is accepted.
C26_WitnessError ==
    /\ emitter.steps # <<>>
    /\ C26_ScalarAccepted(Top(emitter.steps))
    /\ Head(Top(emitter.steps).queue).tag = None
    /\ ~Head(Top(emitter.steps).queue).plain_implicit
    /\ ~Head(Top(emitter.steps).queue).quoted_implicit
    /\ emitter.result = "Err"


(***************************************************************************)
(* C27: the emitter's indent is -1 after StreamStart is processed; on      *)
(* entering any flow collection indent becomes exactly best_indent; on     *)
(* entering a block collection that is a child of another collection       *)
(* indent increases by exactly best_indent; and on leaving a collection    *)
(* indent returns to the value it had before entering.                     *)
(***************************************************************************)
C27_FlowFirst == {"FlowSequenceFirstItem", "FlowMappingFirstKey"}

C27_BlockFirst == {"BlockSequenceFirstItem", "BlockMappingFirstKey"}

C27_Inside ==
    {"FlowSequenceItem", "FlowMappingKey", "BlockSequenceItem", "BlockMappingKey"}

C27_Ends == {"SequenceEnd", "MappingEnd"}

\* The step entered a collection: it took the first child of the collection
\* in the state that opens it.
C27_Entered(step, first) ==
    step.state \in first /\ Head(step.queue).type \notin C27_Ends

\* The step left a collection that had children.
C27_Left(step) ==
    step.state \in C27_Inside /\ Head(step.queue).type \in C27_Ends

\* The step took StreamStart with indent -1 and an empty stack of indents.
C27_Started(step) ==
    Head(step.queue).type = "StreamStart" =>
        step.indent = 0 - 1 /\ step.indents = <<>>

\* The step that left a collection took the indent the collection had saved.
C27_Restored(step) ==
    C27_Left(step) =>
        /\ step.before.indents # <<>>
        /\ step.indent = Top(step.before.indents)
        /\ step.indents = Pop(step.before.indents)

C27_Indent(before, state, best_indent) ==
    IF before.indent < 0
    THEN IF state \in C27_FlowFirst THEN best_indent ELSE 0
    ELSE IF /\ state = "BlockSequenceFirstItem"
            /\ before.mapping_context
            /\ ~before.indention
    THEN before.indent
    ELSE before.indent + best_indent

C27_WitnessIndentless ==
    \E i \in 1..Len(emitter.steps) :
        /\ C27_Entered(emitter.steps[i], {"BlockSequenceFirstItem"})
        /\ emitter.steps[i].before.indent >= 0
        /\ emitter.steps[i].indent = emitter.steps[i].before.indent

\* A collection inside another was left.
C27_WitnessLeft ==
    \E i \in 1..Len(emitter.steps) :
        /\ C27_Left(emitter.steps[i])
        /\ emitter.steps[i].indent >= 0

\* ---------------------------------------------------------------------------
\* The scalar analyzer on its own: analyze_scalar is applied to one value drawn
\* from the short strings over ordinary characters, indicators, spaces and
\* line breaks.
\* ---------------------------------------------------------------------------

MaxValue == 4

\* An ordinary character, the indicators analyze_scalar tells apart after the
\* first character, the leading dash, a space and a line break.
AnalysisChars == {"a", ",", "?", ":", "[", "]", "{", "}", "-", " ", "\n"}

Values == UNION {[1..n -> AnalysisChars] : n \in 0..MaxValue}

InitAnalysis ==
    /\ parser = yaml_parser_new(FreeInput("structure"))
    /\ event = NoEvent
    /\ ret = 1
    /\ call = [state |-> "NONE", error |-> "YAML_NO_ERROR", tag_directives |-> <<>>]
    /\ open = <<>>
    /\ balanced = TRUE
    /\ trace = <<>>
    /\ emitter = set_output(Emitter_new)
    /\ emits = [calls |-> 0, failed |-> FALSE]
    /\ loaded = NotLoaded
    /\ got = NotGot
    /\ analysed \in {[value |-> value, analysis |-> None] : value \in Values}

\* analyze_event calls analyze_scalar on the value of a scalar event.
Analyze ==
    /\ analysed.analysis = None
    /\ analysed' = [analysed EXCEPT
                       !.analysis = Some(analyze_scalar(emitter, analysed.value))]
    /\ UNCHANGED <<parser, event, ret, call, open, balanced, trace, emitter, emits,
                   loaded, got>>

NextAnalysis == Analyze

SpecAnalysis == InitAnalysis /\ [][NextAnalysis]_vars

\* The flags of an analysis, without the value and the style.
Flags(multiline, flow_plain, block_plain, single_quoted, block) ==
    [multiline |-> multiline, flow_plain_allowed |-> flow_plain,
     block_plain_allowed |-> block_plain, single_quoted_allowed |-> single_quoted,
     block_allowed |-> block]

FlagsOf(a) ==
    Flags(a.multiline, a.flow_plain_allowed, a.block_plain_allowed,
          a.single_quoted_allowed, a.block_allowed)

Analysed == analysed.analysis # None

\* ---------------------------------------------------------------------------
\* C28: the analysis of the empty string.
\* ---------------------------------------------------------------------------

\* C28 as stated: for the empty string analyze_scalar disallows no style; it
\* returns multiline false and flow_plain_allowed, block_plain_allowed,
\* single_quoted_allowed and block_allowed all true.
C28_EmptyUnrestricted ==
    (Analysed /\ analysed.value = <<>>)
        => FlagsOf(analysed.analysis[1]) = Flags(FALSE, TRUE, TRUE, TRUE, TRUE)

\* C28, amended: for the empty string analyze_scalar returns multiline false,
\* block_plain_allowed and single_quoted_allowed true, and flow_plain_allowed
\* and block_allowed false: the empty value is not written plain in a flow
\* context and never in literal or folded style.
C28_EmptyValue ==
    (Analysed /\ analysed.value = <<>>)
        => FlagsOf(analysed.analysis[1]) = Flags(FALSE, FALSE, TRUE, TRUE, FALSE)

C28_Witness ==
    /\ Analysed
    /\ analysed.value = <<>>
    /\ ~analysed.analysis[1].flow_plain_allowed
    /\ analysed.analysis[1].block_plain_allowed

\* ---------------------------------------------------------------------------
\* C29: the indicator rules on values without spaces and line breaks.
\* ---------------------------------------------------------------------------

C29_FlowIndicators == {",", "?", "[", "]", "{", "}"}

\* The values C29 is about: not empty, no space and no line break.
C29_Value(value) ==
    /\ value # <<>>
    /\ \A i \in 1..Len(value) : value[i] \notin {" ", "\n"}

\* A colon followed by a blank or by the end of the value; without spaces the
\* colon is the last character.
C29_ColonBeforeBlank(value) == value[Len(value)] = ":"

\* The first-character rules: one of , [ ] { } first, a dash that is the whole
\* value, or a document marker.
C29_FirstIndicator(value) ==
    \/ value[1] \in {",", "[", "]", "{", "}"}
    \/ value = <<"-">>
    \/ starts_with(value, <<"-", "-", "-">>)

\* C29 as stated: a , ? [ ] { } after the first character disallows only flow
\* plain; a colon disallows plain, block and flow, only when a blank or the
\* end of the value follows it; a leading ? or : disallows plain only when a
\* blank follows it; a value with none of these keeps both plain flags.
C29_IndicatorsAsStated ==
    (Analysed /\ C29_Value(analysed.value) /\ ~C29_FirstIndicator(analysed.value))
        => LET value == analysed.value
               a == analysed.analysis[1]
               later == \E i \in 2..Len(value) : value[i] \in C29_FlowIndicators
           IN  /\ a.flow_plain_allowed = ~(later \/ C29_ColonBeforeBlank(value))
               /\ a.block_plain_allowed = ~C29_ColonBeforeBlank(value)

\* C29, amended: on a non-empty value without spaces and line breaks that no
\* first-character rule applies to, flow plain is disallowed exactly when the
\* value holds a , ? [ ] { } after the first character, a colon anywhere, or a
\* leading ? ; block plain is disallowed exactly when a colon or a leading ?
\* is followed by the end of the value; single-quoted and block stay allowed
\* and the value is not multiline.
C29_Indicators ==
    (Analysed /\ C29_Value(analysed.value) /\ ~C29_FirstIndicator(analysed.value))
        => LET value == analysed.value
               a == analysed.analysis[1]
               later == \E i \in 2..Len(value) : value[i] \in C29_FlowIndicators
               colon == \E i \in 1..Len(value) : value[i] = ":"
           IN  /\ a.flow_plain_allowed = ~(later \/ colon \/ value[1] = "?")
               /\ a.block_plain_allowed =
                      ~(C29_ColonBeforeBlank(value) \/ value = <<"?">>)
               /\ a.single_quoted_allowed
               /\ a.block_allowed
               /\ ~a.multiline

\* A colon between two ordinary characters: flow plain is disallowed, block
\* plain is not.
C29_Witness ==
    /\ Analysed
    /\ analysed.value = <<"a", ":", "a">>
    /\ ~analysed.analysis[1].flow_plain_allowed
    /\ analysed.analysis[1].block_plain_allowed

C29_WitnessLeading ==
    /\ Analysed
    /\ analysed.value = <<"?", "a">>
    /\ ~analysed.analysis[1].flow_plain_allowed
    /\ analysed.analysis[1].block_plain_allowed

C29_WitnessLater ==
    /\ Analysed
    /\ analysed.value = <<"a", ",", "a">>
    /\ ~analysed.analysis[1].flow_plain_allowed
    /\ analysed.analysis[1].block_plain_allowed

\* ---------------------------------------------------------------------------
\* C30: spaces and line breaks.
\* ---------------------------------------------------------------------------

\* The values C30 is about: not empty, ordinary characters, spaces and breaks.
C30_Value(value) ==
    /\ value # <<>>
    /\ \A i \in 1..Len(value) : value[i] \in {"a", " ", "\n"}

C30_Contains(value, ch) == \E i \in 1..Len(value) : value[i] = ch

\* The character ch immediately followed by the character after.
C30_Pair(value, ch, after) ==
    \E i \in 1..(Len(value) - 1) : value[i] = ch /\ value[i + 1] = after

C30_Edge(value) ==
    \/ value[1] \in {" ", "\n"}
    \/ value[Len(value)] \in {" ", "\n"}

C30_WitnessSpaceBreak ==
    /\ Analysed
    /\ analysed.value = <<"a", " ", "\n", "a">>
    /\ FlagsOf(analysed.analysis[1]) = Flags(TRUE, FALSE, FALSE, FALSE, FALSE)

C30_WitnessTrailingSpace ==
    /\ Analysed
    /\ analysed.value = <<"a", " ">>
    /\ FlagsOf(analysed.analysis[1]) = Flags(FALSE, FALSE, FALSE, TRUE, FALSE)

(***************************************************************************)
(* C31.  Indentless sequences.  A call that starts in a block-mapping      *)
(* state, consumes the KEY or VALUE token (and the node's anchor) and      *)
(* stops at a BLOCK-ENTRY token returns SequenceStart in block style,      *)
(* leaves the BLOCK-ENTRY in the queue and pushes the mapping's next       *)
(* state; a call in the indentless-sequence state consumes exactly one     *)
(* BLOCK-ENTRY, returns the entry's node and stays in (or will return to)  *)
(* the indentless-sequence state, or, at the first token that is not       *)
(* BLOCK-ENTRY, whatever it is, returns SequenceEnd, consumes nothing and  *)
(* pops the mapping's state back.                                          *)
(***************************************************************************)
C31_MappingStates ==
    {"BLOCK_MAPPING_FIRST_KEY", "BLOCK_MAPPING_KEY", "BLOCK_MAPPING_VALUE"}

C31_NodeEvents == {"ALIAS", "SCALAR", "SEQUENCE_START", "MAPPING_START"}

\* The call goes through the state machine.
C31_Runs(p) == ~p.stream_end_produced /\ p.error = "YAML_NO_ERROR"

\* The call left a token of the given type at the head of the queue.
C31_StoppedAt(p, type) == p.token_available /\ Head(p.tokens).type = type

C31_Start ==
    (/\ C31_Runs(parser)
     /\ parser.state \in C31_MappingStates
     /\ parser'.skipped # <<>>
     /\ Top(parser'.skipped).type \in {"KEY", "VALUE", "ANCHOR"}
     /\ C31_StoppedAt(parser', "BLOCK_ENTRY"))
        => /\ ret' = 1
           /\ event'.type = "SEQUENCE_START"
           /\ event'.style = "BLOCK_SEQUENCE"
           /\ parser'.state = "INDENTLESS_SEQUENCE_ENTRY"
           /\ parser'.states =
                  Append(parser.states,
                         IF parser.state = "BLOCK_MAPPING_VALUE"
                         THEN "BLOCK_MAPPING_KEY" ELSE "BLOCK_MAPPING_VALUE")

C31_Entry ==
    (/\ C31_Runs(parser)
     /\ parser.state = "INDENTLESS_SEQUENCE_ENTRY"
     /\ parser'.skipped # <<>>)
        => /\ parser'.skipped[1].type = "BLOCK_ENTRY"
           /\ \A i \in 2..Len(parser'.skipped) :
                  parser'.skipped[i].type # "BLOCK_ENTRY"
           /\ ret' = 1 =>
                  /\ event'.type \in C31_NodeEvents
                  /\ IF event'.type \in {"ALIAS", "SCALAR"}
                     THEN /\ parser'.state = "INDENTLESS_SEQUENCE_ENTRY"
                          /\ parser'.states = parser.states
                     ELSE parser'.states =
                              Append(parser.states, "INDENTLESS_SEQUENCE_ENTRY")

C31_End ==
    (/\ C31_Runs(parser)
     /\ parser.state = "INDENTLESS_SEQUENCE_ENTRY"
     /\ parser'.skipped = <<>>
     /\ parser'.token_available)
        => /\ ~C31_StoppedAt(parser', "BLOCK_ENTRY")
           /\ ret' = 1
           /\ event'.type = "SEQUENCE_END"
           /\ parser.states # <<>>
           /\ parser'.state = Top(parser.states)
           /\ parser'.state \in {"BLOCK_MAPPING_KEY", "BLOCK_MAPPING_VALUE"}
           /\ parser'.states = Pop(parser.states)
           /\ parser'.tokens = IF parser.token_available THEN parser.tokens
                               ELSE Append(parser.tokens, Head(parser'.tokens))

\* C31: the three parts hold of every call of yaml_parser_parse.
C31_IndentlessSequence == [][C31_Start /\ C31_Entry /\ C31_End]_vars

\* An indentless sequence has just been closed at a KEY token, the next key of
\* the enclosing mapping; no BLOCK-END was seen.
C31_Witness ==
    /\ call.state = "INDENTLESS_SEQUENCE_ENTRY"
    /\ call.error = "YAML_NO_ERROR"
    /\ event.type = "SEQUENCE_END"
    /\ parser.skipped = <<>>
    /\ C31_StoppedAt(parser, "KEY")
    /\ parser.state = "BLOCK_MAPPING_KEY"

\* An indentless sequence has just been opened as the value of a key.
C31_WitnessStart ==
    /\ call.state = "BLOCK_MAPPING_VALUE"
    /\ event.type = "SEQUENCE_START"
    /\ parser.state = "INDENTLESS_SEQUENCE_ENTRY"
    /\ C31_StoppedAt(parser, "BLOCK_ENTRY")

(***************************************************************************)
(* C32.  One node per document.  A node event at the top level of a        *)
(* document is returned only by the call after the one that returned       *)
(* DocumentStart, and DocumentEnd is returned only by the call after the   *)
(* one that returned the root node (an Alias or a Scalar) or closed it     *)
(* (SequenceEnd, MappingEnd at the top level); the stack of open events    *)
(* (C1) makes the collection balanced.  A call in the DOCUMENT_CONTENT     *)
(* state that finds a directive, DOCUMENT-START, DOCUMENT-END or           *)
(* STREAM-END token returns an empty plain scalar and consumes nothing.    *)
(***************************************************************************)
C32_Returned == ret' = 1 /\ event'.type # "NO_EVENT"

C32_RootNode ==
    (/\ C32_Returned
     /\ event'.type \in {"ALIAS", "SCALAR", "SEQUENCE_START", "MAPPING_START"}
     /\ open = <<"STREAM", "DOCUMENT">>)
        => event.type = "DOCUMENT_START"

C32_DocumentEnd ==
    (C32_Returned /\ event'.type = "DOCUMENT_END")
        => /\ open = <<"STREAM", "DOCUMENT">>
           /\ open' = <<"STREAM">>
           /\ event.type \in {"ALIAS", "SCALAR", "SEQUENCE_END", "MAPPING_END"}

C32_DocumentStart ==
    (C32_Returned /\ event'.type = "DOCUMENT_START")
        => /\ parser'.states = <<"DOCUMENT_END">>
           /\ parser'.state = IF event'.implicit = 1 THEN "BLOCK_NODE"
                              ELSE "DOCUMENT_CONTENT"

C32_NoContent ==
    (/\ ~parser.stream_end_produced
     /\ parser.error = "YAML_NO_ERROR"
     /\ parser.state = "DOCUMENT_CONTENT"
     /\ parser'.token_available
     /\ parser'.skipped = <<>>
     /\ Head(parser'.tokens).type \in
            {"VERSION_DIRECTIVE", "TAG_DIRECTIVE", "DOCUMENT_START", "DOCUMENT_END",
             "STREAM_END"})
        => /\ ret' = 1
           /\ event'.type = "SCALAR"
           /\ event'.value = ""
           /\ event'.style = "PLAIN"
           /\ event'.plain_implicit = 1
           /\ event'.anchor = NULL
           /\ event'.tag = NULL
           /\ parser'.state = "DOCUMENT_END"

\* C32: between DocumentStart and DocumentEnd exactly one top-level node is
\* returned, and the node of an explicit document without content is an empty
\* plain scalar.
C32_OneNodePerDocument ==
    [][C32_RootNode /\ C32_DocumentEnd /\ C32_DocumentStart /\ C32_NoContent]_vars

\* An explicit document without content has been closed: the empty scalar was
\* returned in the DOCUMENT_CONTENT state before a directive.
C32_Witness ==
    /\ call.state = "DOCUMENT_CONTENT"
    /\ ret = 1
    /\ event.type = "SCALAR"
    /\ event.value = ""
    /\ parser.skipped = <<>>
    /\ C31_StoppedAt(parser, "TAG_DIRECTIVE")

\* A document whose root is a collection has been closed.
C32_WitnessCollection ==
    /\ call.state = "DOCUMENT_END"
    /\ event.type = "DOCUMENT_END"
    /\ open = <<"STREAM">>
    /\ parser.skipped # <<>>

(***************************************************************************)
(* The loader reading mappings: every short stream of the tokens of flow   *)
(* and block mappings, complete or not, with keys and values present or    *)
(* absent, and a few longer streams of complete pairs.                     *)
(***************************************************************************)
\* The longest body of a generated stream of mapping tokens.
MaxPairs == 5

PairTokens ==
    {Token("FLOW_MAPPING_START"), Token("FLOW_MAPPING_END"), Token("FLOW_ENTRY"),
     Token("BLOCK_MAPPING_START"), Token("BLOCK_END"), Token("KEY"), Token("VALUE"),
     ScalarToken("a", "PLAIN")}

\* { a: b }, a: b as a block mapping, [ a: b ], { a: b, c: d } and
\* &x { *x : *x }
CompletePairs ==
    {<<Token("FLOW_MAPPING_START"), Token("KEY"), ScalarToken("a", "PLAIN"),
       Token("VALUE"), ScalarToken("b", "PLAIN"), Token("FLOW_MAPPING_END")>>,
     <<Token("BLOCK_MAPPING_START"), Token("KEY"), ScalarToken("a", "PLAIN"),
       Token("VALUE"), ScalarToken("b", "PLAIN"), Token("BLOCK_END")>>,
     <<Token("FLOW_SEQUENCE_START"), Token("KEY"), ScalarToken("a", "PLAIN"),
       Token("VALUE"), ScalarToken("b", "PLAIN"), Token("FLOW_SEQUENCE_END")>>,
     <<Token("FLOW_SEQUENCE_START"), Token("KEY"), Token("FLOW_SEQUENCE_END")>>,
     <<Token("FLOW_MAPPING_START"), Token("KEY"), ScalarToken("a", "PLAIN"),
       Token("VALUE"), ScalarToken("b", "PLAIN"), Token("FLOW_ENTRY"),
       Token("KEY"), ScalarToken("c", "PLAIN"), Token("VALUE"),
       ScalarToken("d", "PLAIN"), Token("FLOW_MAPPING_END")>>,
     <<AnchorToken("x"), Token("FLOW_MAPPING_START"), Token("KEY"), AliasToken("x"),
       Token("VALUE"), AliasToken("x"), Token("FLOW_MAPPING_END")>>}

PairStreams ==
    {<<Token("STREAM_START")>> \o body \o <<Token("STREAM_END")>> :
        body \in CompletePairs \cup UNION {[1..n -> PairTokens] : n \in 0..MaxPairs}}

InitPairs ==
    /\ \E stream \in PairStreams :
          parser = yaml_parser_new(ScriptedInput(Stamp(stream)))
    /\ event = NoEvent
    /\ ret = 1
    /\ call = [state |-> "NONE", error |-> "YAML_NO_ERROR", tag_directives |-> <<>>]
    /\ open = <<>>
    /\ balanced = TRUE
    /\ trace = <<>>
    /\ emitter = Emitter_new
    /\ emits = [calls |-> 0, failed |-> FALSE]
    /\ loaded = NotLoaded
    /\ got = NotGot
    /\ analysed = NotAnalysed

SpecPairs == InitPairs /\ [][NextLoader]_vars

(***************************************************************************)
(* C33.  In every document yaml_parser_load returns with success, every    *)
(* pair of every mapping node has a key and a value between 1 and the      *)
(* number of nodes, and so has every item of every sequence node: no pair  *)
(* is left with the value 0.                                               *)
(***************************************************************************)
C33_Ids(document) == 1..Len(document.nodes)

C33_Complete(document) ==
    \A n \in C33_Ids(document) :
        /\ \A i \in 1..Len(document.nodes[n].items) :
               document.nodes[n].items[i] \in C33_Ids(document)
        /\ \A i \in 1..Len(document.nodes[n].pairs) :
               /\ document.nodes[n].pairs[i].key \in C33_Ids(document)
               /\ document.nodes[n].pairs[i].value \in C33_Ids(document)

C33_PairsComplete == loaded.result = "Ok" => C33_Complete(loaded.document)

\* A mapping whose only key has no value in the stream has been loaded: the
\* value of its pair is the empty scalar the parser returned for it.
C33_Witness ==
    /\ loaded.result = "Ok"
    /\ \E n \in C33_Ids(loaded.document) :
          /\ loaded.document.nodes[n].type = "MAPPING"
          /\ Len(loaded.document.nodes[n].pairs) = 1
          /\ loaded.document.nodes[n].pairs[1].key = n + 1
          /\ loaded.document.nodes[n].pairs[1].value = n + 2
          /\ loaded.document.nodes[n + 1].value = "a"
          /\ loaded.document.nodes[n + 2].value = ""

\* { a: b, c: d } has been loaded.
C33_WitnessTwoPairs ==
    /\ loaded.result = "Ok"
    /\ Len(loaded.document.nodes) = 5
    /\ loaded.document.nodes[1].pairs =
           <<[key |-> 2, value |-> 3], [key |-> 4, value |-> 5]>>

\* &x { *x : *x } has been loaded: a pair of the mapping with itself.
C33_WitnessAlias ==
    /\ loaded.result = "Ok"
    /\ Len(loaded.document.nodes) = 1
    /\ loaded.document.nodes[1].pairs = <<[key |-> 1, value |-> 1]>>

(***************************************************************************)
(* The emitter with its buffer nearly full, so that the next characters    *)
(* are put after a flush and the write handler is called in the middle of  *)
(* an event.  The application has emitted the start of a flow collection   *)
(* whose last item so far is a long plain scalar without spaces: writing   *)
(* it put one character after the other and flushed nothing, so the        *)
(* emitter is the one after a scalar of one character with the buffer and  *)
(* the column that many characters further.                                *)
(***************************************************************************)
\* The longest run of emit calls after the buffer has been filled.
MaxRetries == 3

\* The most characters the buffer still takes before the next flush.
MaxRoom == 1

\* One call of Emitter::emit, the write handler failing or not during it.
Emitted(e, ev, fails) ==
    emit([e EXCEPT !.result = "Ok", !.problem = NULL, !.write_handler.fails = fails],
         ev)

RECURSIVE EmittedAll(_, _)
EmittedAll(e, events) ==
    IF events = <<>> THEN e
    ELSE EmittedAll(Emitted(e, Head(events), FALSE), Tail(events))

\* The scalar written last was n characters longer.
Lengthened(e, n) ==
    [e EXCEPT !.buffer = @ \o [i \in 1..n |-> "a"], !.column = @ + n]

\* The buffer takes room characters more before flush_if_needed flushes it.
Filled(e, room) == Lengthened(e, OUTPUT_BUFFER_SIZE - 5 - room - Len(e.buffer))

PlainItem == ScalarEvent(None, None, <<"a">>, TRUE, FALSE, "Plain")

\* [ a, aaa...  and  { a: a, a: aaa...
FlowStarts ==
    {<<StreamStartEvent("Any"), DocumentStartEvent(None, <<>>, TRUE),
       SequenceStartEvent(None, None, TRUE, "Flow"), PlainItem, PlainItem>>,
     <<StreamStartEvent("Any"), DocumentStartEvent(None, <<>>, TRUE),
       MappingStartEvent(None, None, TRUE, "Flow"), PlainItem, PlainItem,
       PlainItem, PlainItem>>}

RetryEvents ==
    {SequenceEndEvent, MappingEndEvent, PlainItem, DocumentEndEvent(TRUE)}

InitNearFull ==
    /\ parser = yaml_parser_new(FreeInput("structure"))
    /\ event = NoEvent
    /\ ret = 1
    /\ call = [state |-> "NONE", error |-> "YAML_NO_ERROR", tag_directives |-> <<>>]
    /\ open = <<>>
    /\ balanced = TRUE
    /\ trace = <<>>
    /\ loaded = NotLoaded
    /\ got = NotGot
    /\ analysed = NotAnalysed
    /\ \E events \in FlowStarts, room \in 0..MaxRoom :
          emitter = Filled(EmittedAll(set_output(Emitter_new), events), room)
    /\ emits = [calls |-> 0, failed |-> FALSE]

\* One call of Emitter::emit by the application, which goes on after an Err.
EmitNearFull ==
    /\ emits.calls < MaxRetries
    /\ emitter.result # "Panic"
    /\ \E ev \in RetryEvents, fails \in BOOLEAN :
          emitter' = Emitted(emitter, ev, fails)
    /\ emits' = [calls |-> emits.calls + 1,
                 failed |-> emits.failed \/ emitter'.result = "Err"]
    /\ UNCHANGED <<parser, event, ret, call, open, balanced, trace, loaded, got,
                   analysed>>

NextNearFull == EmitNearFull

SpecNearFull == InitNearFull /\ [][NextNearFull]_vars

(***************************************************************************)
(* C34.  No call of Emitter::emit panics, whatever the events, after an    *)
(* Err and when the write handler fails: every pop of the states and of    *)
(* the indents finds an element.                                           *)
(***************************************************************************)
C34_NeverPanics == emitter.result # "Panic"

(***************************************************************************)
(* C35.  When no emit call has failed, the emitter that has just processed *)
(* a DocumentEnd event has its layout as at the start of a document:       *)
(* indent -1, no saved indents, no saved states, flow_level 0 and the      *)
(* state DocumentStart.                                                    *)
(***************************************************************************)
\* The last event the state machine processed, with success, was of this type.
C35_Processed(type) ==
    /\ emitter.steps # <<>>
    /\ emitter.steps[Len(emitter.steps)].queue # <<>>
    /\ Head(emitter.steps[Len(emitter.steps)].queue).type = type
    /\ emitter.steps[Len(emitter.steps)].result = "Ok"

C35_LayoutReset ==
    (~emits.failed /\ C35_Processed("DocumentEnd"))
        => /\ emitter.indent = -1
           /\ emitter.indents = <<>>
           /\ emitter.states = <<>>
           /\ emitter.flow_level = 0
           /\ emitter.state = "DocumentStart"

\* A document whose root is a flow collection has been ended.
C35_Witness ==
    /\ ~emits.failed
    /\ C35_Processed("DocumentEnd")
    /\ \E i \in 1..Len(Output(emitter)) : Output(emitter)[i] \in {"]", "}"}

\* A document whose root is a block sequence with an item has been ended.
C35_WitnessBlock ==
    /\ ~emits.failed
    /\ C35_Processed("DocumentEnd")
    /\ \E i \in 1..Len(Output(emitter)) : Output(emitter)[i] = "-"

(***************************************************************************)
(* Emitter::open and Emitter::close around the emit calls of the           *)
(* application.                                                            *)
(***************************************************************************)
Emitter_open(e) ==
    IF e.opened THEN Panic(e, "assertion failed: !self.opened")
    ELSE Try(emit(e, StreamStartEvent("Any")), LAMBDA f : [f EXCEPT !.opened = TRUE])

Emitter_close(e) ==
    IF ~e.opened THEN Panic(e, "assertion failed: self.opened")
    ELSE IF e.closed THEN e
    ELSE Try(emit(e, StreamEndEvent), LAMBDA f : [f EXCEPT !.closed = TRUE])

\* The events the application emits between open and close.
OpenedEvents ==
    {DocumentStartEvent(None, <<>>, TRUE), DocumentEndEvent(TRUE),
     ScalarEvent(None, None, <<"a">>, TRUE, FALSE, "Plain"),
     SequenceStartEvent(None, None, TRUE, "Block"), SequenceEndEvent,
     MappingStartEvent(None, None, TRUE, "Block"), MappingEndEvent}

InitOpened ==
    /\ parser = yaml_parser_new(FreeInput("structure"))
    /\ event = NoEvent
    /\ ret = 1
    /\ call = [state |-> "NONE", error |-> "YAML_NO_ERROR", tag_directives |-> <<>>]
    /\ open = <<>>
    /\ balanced = TRUE
    /\ trace = <<>>
    /\ loaded = NotLoaded
    /\ got = NotGot
    /\ analysed = NotAnalysed
    /\ emitter = set_output(Emitter_new)
    /\ emits = [calls |-> 0, failed |-> FALSE]

\* The calls count every call made on the emitter; failed, those that
\* returned Err.
Called(e) ==
    /\ emitter' = e
    /\ emits' = [calls |-> emits.calls + 1, failed |-> emits.failed \/ e.result = "Err"]
    /\ UNCHANGED <<parser, event, ret, call, open, balanced, trace, loaded, got,
                   analysed>>

Open ==
    /\ emits.calls < MaxEmits
    /\ emitter.result # "Panic"
    /\ Called(Emitter_open([emitter EXCEPT !.result = "Ok", !.problem = NULL]))

\* One call of Emitter::emit between open and close.
EmitOpened ==
    /\ emits.calls < MaxEmits
    /\ emitter.result # "Panic"
    /\ emitter.opened /\ ~emitter.closed
    /\ \E ev \in OpenedEvents :
          Called(emit([emitter EXCEPT !.result = "Ok", !.problem = NULL], ev))

Close ==
    /\ emits.calls < MaxEmits
    /\ emitter.result # "Panic"
    /\ Called(Emitter_close([emitter EXCEPT !.result = "Ok", !.problem = NULL]))

NextOpened == Open \/ EmitOpened \/ Close

SpecOpened == InitOpened /\ [][NextOpened]_vars

(***************************************************************************)
(* C36.  When close has returned Ok after open and emit calls that all     *)
(* returned Ok, the StreamEnd event has been processed: no event is left   *)
(* in the queue, the state is End and the buffer has been flushed to the   *)
(* write handler.                                                          *)
(***************************************************************************)
C36_ClosedMeansEnded ==
    (emitter.closed /\ ~emits.failed)
        => /\ emitter.events = <<>>
           /\ emitter.state = "End"
           /\ emitter.buffer = <<>>

(***************************************************************************)
(* The emitter inside a mapping: the application has emitted StreamStart,  *)
(* DocumentStart and MappingStart after set_width, and goes on with keys   *)
(* and values.                                                             *)
(***************************************************************************)
\* The longest run of emit calls after the MappingStart.
MaxKeyEmits == 3

\* The longest key check_simple_key accepts.
MaxSimpleKeyLength == 128

Widths == {-1, 5}

Letters(n) == [i \in 1..n |-> "a"]

Words == <<"a", "a", " ", "a", "a", " ", "a", "a">>

\* A scalar whose anchor, tag (handle ! and suffix) and value have n
\* characters together.
LongKey(n) ==
    ScalarEvent(Some(Letters(60)), Some(<<"!">> \o Letters(59)), Letters(n - 120),
                FALSE, FALSE, "Plain")

KeyEvents ==
    {ScalarEvent(None, None, <<"a">>, TRUE, FALSE, "Plain"),
     ScalarEvent(None, None, Words, TRUE, TRUE, "Plain"),
     ScalarEvent(None, None, Words, TRUE, TRUE, "SingleQuoted"),
     ScalarEvent(None, None, Words, TRUE, TRUE, "DoubleQuoted"),
     ScalarEvent(None, None, Words, TRUE, TRUE, "Literal"),
     ScalarEvent(Some(<<"x">>), Some(<<"!", "t">>), Words, FALSE, FALSE, "Plain"),
     ScalarEvent(None, None, <<"a", "\n", "a">>, TRUE, TRUE, "Plain"),
     LongKey(MaxSimpleKeyLength), LongKey(MaxSimpleKeyLength + 1),
     AliasEvent(<<"x">>),
     SequenceStartEvent(None, None, TRUE, "Block"), SequenceEndEvent,
     MappingStartEvent(None, None, TRUE, "Flow"), MappingEndEvent}

MappingStarts ==
    {<<StreamStartEvent("Any"), DocumentStartEvent(None, <<>>, TRUE),
       MappingStartEvent(None, None, TRUE, style)>> : style \in {"Block", "Flow"}}

InitKeys ==
    /\ parser = yaml_parser_new(FreeInput("structure"))
    /\ event = NoEvent
    /\ ret = 1
    /\ call = [state |-> "NONE", error |-> "YAML_NO_ERROR", tag_directives |-> <<>>]
    /\ open = <<>>
    /\ balanced = TRUE
    /\ trace = <<>>
    /\ loaded = NotLoaded
    /\ got = NotGot
    /\ analysed = NotAnalysed
    /\ \E events \in MappingStarts, width \in Widths :
          emitter = EmittedAll(set_width(set_output(Emitter_new), width), events)
    /\ emits = [calls |-> 0, failed |-> FALSE]

\* One call of Emitter::emit with a key, a value or the end of a collection.
EmitKey ==
    /\ emits.calls < MaxKeyEmits
    /\ emitter.result # "Panic"
    /\ \E ev \in KeyEvents : emitter' = Emitted(emitter, ev, FALSE)
    /\ emits' = [calls |-> emits.calls + 1,
                 failed |-> emits.failed \/ emitter'.result = "Err"]
    /\ UNCHANGED <<parser, event, ret, call, open, balanced, trace, loaded, got,
                   analysed>>

NextKeys == EmitKey

SpecKeys == InitKeys /\ [][NextKeys]_vars

(***************************************************************************)
(* C37.  A mapping key written without the ? indicator is on one line: no  *)
(* line break is written after the first character of the key and before   *)
(* the : that follows it, for an alias, a scalar of any style and an empty *)
(* collection, at every width; and such a key has no line break in its     *)
(* value and at most 128 characters in anchor, tag and value together.     *)
(***************************************************************************)
C37_KeyStates ==
    {"BlockMappingFirstKey", "BlockMappingKey", "FlowMappingFirstKey", "FlowMappingKey"}

C37_SimpleValueStates == {"BlockMappingSimpleValue", "FlowMappingSimpleValue"}

\* What is written in front of a key: the indentation and the flow indicators.
C37_Layout == {"\n", " ", ",", "{"}

C37_Breaks == {"\r", "\n"}

\* The text has no line break after its first character that is not layout.
C37_OneLine(text) ==
    \A i \in 1..Len(text) :
        text[i] \in C37_Breaks => \A j \in 1..(i - 1) : text[j] \in C37_Layout

C37_NoBreak(text) == \A i \in 1..Len(text) : text[i] \notin C37_Breaks

C37_Length(ev) ==
    (IF is_some(ev.anchor) THEN Len(unwrap(ev.anchor)) ELSE 0)
    + (IF is_some(ev.tag) THEN Len(unwrap(ev.tag)) ELSE 0)
    + Len(ev.value)

\* The step completed a simple key: the state machine goes on with the
\* value that follows a simple key.
C37_SimpleKey(step) ==
    /\ step.result = "Ok"
    /\ step.queue # <<>>
    /\ step.next \in C37_SimpleValueStates

\* A simple key is completed by its alias or scalar, met in a key state, or
\* by the end of an empty collection.
C37_Step(step) ==
    /\ C37_SimpleKey(step)
        => \/ /\ Head(step.queue).type \in {"Alias", "Scalar"}
              /\ step.state \in C37_KeyStates
              /\ C37_OneLine(step.text)
              /\ C37_NoBreak(Head(step.queue).value)
              /\ C37_Length(Head(step.queue)) <= MaxSimpleKeyLength
           \/ /\ Head(step.queue).type \in {"SequenceEnd", "MappingEnd"}
              /\ C37_NoBreak(step.text)
    /\ (step.state \in C37_SimpleValueStates /\ step.result = "Ok")
        => (step.text # <<>> /\ Head(step.text) = ":")

C37_WitnessLongest ==
    \E i \in 1..Len(emitter.steps) :
        /\ i > 1
        /\ emitter.steps[i].state \in C37_SimpleValueStates
        /\ emitter.steps[i].result = "Ok"
        /\ Head(emitter.steps[i - 1].queue) = LongKey(MaxSimpleKeyLength)

\* An empty collection was a simple key.
C37_WitnessEmpty ==
    \E i \in 1..Len(emitter.steps) :
        /\ C37_SimpleKey(emitter.steps[i])
        /\ Head(emitter.steps[i].queue).type \in {"SequenceEnd", "MappingEnd"}

\* A key one character too long was written with the ? indicator.
C37_WitnessTooLong ==
    \E i \in 1..Len(emitter.steps) :
        /\ emitter.steps[i].state \in C37_KeyStates
        /\ emitter.steps[i].result = "Ok"
        /\ emitter.steps[i].queue # <<>>
        /\ Head(emitter.steps[i].queue).type = "Scalar"
        /\ C37_Length(Head(emitter.steps[i].queue)) = MaxSimpleKeyLength + 1
        /\ \E j \in 1..Len(emitter.steps[i].text) : emitter.steps[i].text[j] = "?"

(***************************************************************************)
(* C38.  No call of yaml_parser_load reaches a panic or an assertion of    *)
(* the loader, whatever the token stream and however many loads are made   *)
(* on the parser, after a failed load included.                            *)
(***************************************************************************)
C38_LoadNeverPanics == loaded.result # "Panic"

(***************************************************************************)
(* C39.  When the parser has returned a DocumentEnd event the state stack, *)
(* the marks stack and the table of tag directives are empty, so the next  *)
(* document starts without the handles of this one; and no call pops the   *)
(* state stack or the marks stack when it is empty.                        *)
(***************************************************************************)
C39_DocumentReset ==
    /\ (ret = 1 /\ event.type = "DOCUMENT_END")
        => /\ parser.states = <<>>
           /\ parser.marks = <<>>
           /\ parser.tag_directives = <<>>
           /\ parser.state = "DOCUMENT_START"
    /\ ~parser.ub

\* The document that ended had tag directives in force.
C39_Witness ==
    /\ ret = 1
    /\ event.type = "DOCUMENT_END"
    /\ call.tag_directives # <<>>
    /\ parser.tag_directives = <<>>

(***************************************************************************)
(* C40.  After emit has processed a DocumentEnd event the emitter's list   *)
(* of tag directives is empty, and it stays empty until the next           *)
(* DocumentStart event is processed.                                       *)
(***************************************************************************)
C40_DirectivesCleared ==
    (C35_Processed("DocumentEnd") /\ emitter.state = "DocumentStart")
        => emitter.tag_directives = <<>>

====
